---- MODULE Spec2Model ----
(***************************************************************************)
(* Model of the AST analysis pipeline:                                     *)
(*   java-parser  Main.main batch loop, JavaFileParser.parseFile,          *)
(*                SparkParser.isSparkFile / parseSparkFile and visitors;   *)
(*   backend      storeFileData, db.store*, db.getDataFlow;                *)
(*   frontend     processDataFlow (flow-edge resolution).                  *)
(*                                                                         *)
(* A Java source file is modelled by what JavaParser exposes of it: the    *)
(* import names, the class/interface declarations in findAll (pre-order)   *)
(* order with the index of the enclosing declaration, the method           *)
(* declarations with the index of the directly enclosing type, and the     *)
(* method call expressions in visitor order, each with its simple name,    *)
(* the kind of its scope (receiver) expression and the printed text of     *)
(* its arguments.  Java maps (HashMap<String,Object>) are functions whose  *)
(* DOMAIN is the set of keys that were put.                                *)
(***************************************************************************)
EXTENDS Integers, Sequences, FiniteSets, TLC

(* ---------------------------- bounds ---------------------------------- *)
MaxFiles == 2
MaxArgs == 2
MaxFlowCalls == 3
MaxDeclarators == 2
MaxRepoFiles == 2
MaxQueryLen == 5
MaxSegments == 3
MaxEntries == 2
MaxQueries == 1
MaxRequests == 2

(* SQL NULL / JS undefined bound to a query parameter *)
NULL == "<NULL>"

(* ------------------------- generic helpers ---------------------------- *)
\* indices i of 1..n satisfying Test, ascending (a forEach that filters)
SelectIdx(n, Test(_)) ==
  LET F[i \in 0..n] == IF i = 0 THEN <<>>
                       ELSE IF Test(i) THEN Append(F[i-1], i) ELSE F[i-1]
  IN F[n]

Range(s) == {s[i] : i \in DOMAIN s}

\* Map.get of a key that may be absent (JS: property read giving undefined)
Get(m, k) == IF k \in DOMAIN m THEN m[k] ELSE NULL

\* JS truthiness of a string-or-null value
Truthy(v) == v # NULL /\ v # ""

(* --------------------- SparkParser vocabularies ----------------------- *)
SPARK_SOURCES ==
  {"read", "readStream", "readText", "csv", "json", "parquet", "orc", "jdbc"}

SPARK_TRANSFORMS ==
  {"select", "filter", "where", "groupBy", "agg", "join", "withColumn", "map",
   "flatMap", "reduce", "transform", "sort", "orderBy", "limit",
   "dropDuplicates", "union", "intersect", "subtract", "cache", "persist",
   "unpersist", "repartition", "coalesce", "sample", "rdd", "toDF",
   "createOrReplaceTempView", "window"}

SPARK_SINKS ==
  {"write", "writeStream", "save", "saveAsTable", "insertInto", "csv", "json",
   "parquet", "orc", "jdbc", "text", "format", "mode", "option", "options",
   "partitionBy", "bucketBy"}

(* ------------------------- source files ------------------------------- *)
\* A call expression: scopeKind is "name" (NameExpr receiver), "call"
\* (receiver is itself a call: a chain), "other" (field access, literal,
\* this, ...) or "none" (no receiver).  scopeName is meaningful for "name".
Call(name, scopeKind, scopeName, args, method) ==
  [name |-> name, scopeKind |-> scopeKind, scopeName |-> scopeName,
   args |-> args, method |-> method]

\* one declared name of a field statement: dims is the number of bracket
\* pairs written after the name ("b[]" has 1), init NULL without initializer
Declarator(name, dims, init) == [name |-> name, dims |-> dims, init |-> init]

\* one field statement: "int a, b = 1;" has two declarators; type is the
\* type written before the names
FieldDecl(declarators, type, isPublic, isStatic) ==
  [variables |-> declarators, type |-> type, isPublic |-> isPublic,
   isStatic |-> isStatic]

\* parent: index of the enclosing type declaration, 0 for a top-level type
TypeDecl(name, parent, isInterface, fields) ==
  [name |-> name, parent |-> parent, isInterface |-> isInterface,
   extended |-> << >>, implemented |-> << >>, fields |-> fields]

\* owner: index of the directly enclosing type declaration
MethodDecl(name, owner, hasBody) ==
  [name |-> name, owner |-> owner, hasBody |-> hasBody, type |-> "void",
   isPublic |-> TRUE, isStatic |-> FALSE, parameters |-> << >>]

\* a local variable declarator; type is the declared type split into its
\* identifiers, init the printed initializer (NULL if none), method the
\* index of the enclosing method
Local(name, type, init, method) ==
  [name |-> name, type |-> type, init |-> init, method |-> method]

\* path is the sequence of the segments of the file's absolute path;
\* imports and types are identifier sequences ("org.apache.spark.sql.Dataset"
\* is <<"org","apache","spark","sql","Dataset">>); pkg is NULL without a
\* package declaration
SourceFile(path, syntaxOK, pkg, imports, types, methods, calls, locals) ==
  [path |-> path, syntaxOK |-> syntaxOK, pkg |-> pkg, imports |-> imports,
   types |-> types, methods |-> methods, calls |-> calls, locals |-> locals]

\* Dataset<Row> df = spark.read().csv("in.csv");
\* df.filter(col("age").gt(20));
\* df.write().parquet("out");
PipelineJava ==
  SourceFile(<<"repo", "Pipeline.java">>, TRUE, "com.example",
    << <<"org", "apache", "spark", "sql", "Dataset">> >>,
    << TypeDecl("Pipeline", 0, FALSE, << >>) >>,
    << MethodDecl("run", 1, TRUE) >>,
    << Call("csv", "call", "", <<"\"in.csv\"">>, 1),
       Call("read", "name", "spark", <<>>, 1),
       Call("filter", "name", "df", <<"col(\"age\").gt(20)">>, 1),
       Call("gt", "call", "", <<"20">>, 1),
       Call("col", "none", "", <<"\"age\"">>, 1),
       Call("parquet", "call", "", <<"\"out\"">>, 1),
       Call("write", "name", "df", <<>>, 1) >>,
    << Local("df", <<"Dataset", "Row">>, "spark.read().csv(\"in.csv\")", 1) >>)

\* Dataset<Row> df = spark.read().csv("in.csv");
\* df.filter(col("age").gt(20)).write().parquet("out");
ChainedJava ==
  SourceFile(<<"repo", "Chained.java">>, TRUE, "com.example",
    << <<"org", "apache", "spark", "sql", "Dataset">> >>,
    << TypeDecl("Chained", 0, FALSE, << >>) >>,
    << MethodDecl("run", 1, TRUE) >>,
    << Call("csv", "call", "", <<"\"in.csv\"">>, 1),
       Call("read", "name", "spark", <<>>, 1),
       Call("parquet", "call", "", <<"\"out\"">>, 1),
       Call("write", "call", "", <<>>, 1),
       Call("filter", "name", "df", <<"col(\"age\").gt(20)">>, 1),
       Call("gt", "call", "", <<"20">>, 1),
       Call("col", "none", "", <<"\"age\"">>, 1) >>,
    << Local("df", <<"Dataset", "Row">>, "spark.read().csv(\"in.csv\")", 1) >>)

\* class Outer { static int x, y = 1;
\*               void a() { System.out.println("a"); }
\*               class Inner { void b() { helper(); } }
\*               interface Api { void c(); } }
OuterJava ==
  SourceFile(<<"repo", "Outer.java">>, TRUE, NULL,
    << <<"java", "util", "List">> >>,
    << TypeDecl("Outer", 0, FALSE,
                << FieldDecl(<<Declarator("x", 0, NULL), Declarator("y", 0, "1")>>,
                             <<"int">>, FALSE, TRUE) >>),
       TypeDecl("Inner", 1, FALSE, << >>),
       TypeDecl("Api", 1, TRUE, << >>) >>,
    << MethodDecl("a", 1, TRUE), MethodDecl("b", 2, TRUE),
       MethodDecl("c", 3, FALSE) >>,
    << Call("println", "other", "", <<"\"a\"">>, 1),
       Call("helper", "none", "", <<>>, 2) >>,
    << >>)

\* no framework import: class Export { void dump(Report report) {
\*   report.json(payload, pretty); report.filter(x); } }
ExportJava ==
  SourceFile(<<"repo", "Export.java">>, TRUE, NULL,
    << >>,
    << TypeDecl("Export", 0, FALSE, << >>) >>,
    << MethodDecl("dump", 1, TRUE) >>,
    << Call("json", "name", "report", <<"payload", "pretty">>, 1),
       Call("filter", "name", "report", <<"x">>, 1) >>,
    << >>)

\* a file JavaParser cannot turn into a CompilationUnit
BrokenJava ==
  SourceFile(<<"repo", "Broken.java">>, FALSE, NULL, << >>, << >>, << >>, << >>, << >>)

SampleFiles == {PipelineJava, ChainedJava, OuterJava, ExportJava, BrokenJava}

\* printed texts of the arguments of a generated call, in call order
ArgPool == <<"url", "table", "props", "extra">>

ArgLists == {SubSeq(ArgPool, 1, k) : k \in 0..MaxArgs}

\* names covering: source only, source and sink, transformation, sink only,
\* isSparkFile-only marker, no vocabulary, and case variants of members
GenNames == {"read", "jdbc", "filter", "write", "builder", "println",
             "Filter", "JDBC"}

GenScopes == {<<"none", "">>, <<"name", "df">>, <<"call", "">>, <<"other", "">>}

\* class Gen { void m() { <one call>; } }
GenCallFile(c) ==
  SourceFile(<<"repo", "Gen.java">>, TRUE, NULL, << >>,
    << TypeDecl("Gen", 0, FALSE, << >>) >>, << MethodDecl("m", 1, TRUE) >>,
    << c >>, << >>)

GenCallFiles ==
  {GenCallFile(Call(n, sc[1], sc[2], a, 1)) :
     n \in GenNames, sc \in GenScopes, a \in ArgLists}

FlowNames == {"json", "filter", "write"}

FlowScopes == {<<"name", "df">>, <<"name", "out">>, <<"call", "">>}

FlowCalls == {Call(n, sc[1], sc[2], << >>, 1) : n \in FlowNames, sc \in FlowScopes}

\* class Flow { void m() { <call>; <call>; ... } }
GenFlowFiles ==
  {SourceFile(<<"repo", "Flow.java">>, TRUE, NULL, << >>,
     << TypeDecl("Flow", 0, FALSE, << >>) >>, << MethodDecl("m", 1, TRUE) >>,
     cs, << >>) :
     cs \in UNION {[1..n -> FlowCalls] : n \in 2..MaxFlowCalls}}

\* the names a generated field statement declares, in order
FieldNamePool == <<"a", "b", "c", "d">>

\* class Fields { <modifiers> int a, b, ... = 0; String s; }: one statement
\* of 1..MaxDeclarators names, the last one initialized and written with or
\* without brackets of its own ("b[] = 0"), and a second statement of one
\* name
GenFieldFiles ==
  {SourceFile(<<"repo", "Fields.java">>, TRUE, NULL, << >>,
     << TypeDecl("Fields", 0, FALSE,
          << FieldDecl([k \in 1..n |->
                          IF k = n THEN Declarator(FieldNamePool[k], dims, "0")
                          ELSE Declarator(FieldNamePool[k], 0, NULL)],
                       <<"int">>, pub, stat),
             FieldDecl(<<Declarator("s", 0, NULL)>>, <<"String">>, FALSE, FALSE) >>) >>,
     << >>, << >>, << >>) :
     n \in 1..MaxDeclarators, pub \in BOOLEAN, stat \in BOOLEAN,
     dims \in 0..1}

(* ----------------------- the AST Adapter ------------------------------ *)
\* try (FileInputStream in = new FileInputStream(file)) {
\*   new JavaParser().parse(in).getResult().orElseThrow() ... }
\* io: whether this attempt could open and read the file.  The result is
\* present only for a readable file that parses.
ParseOK(file, io) == io /\ file.syntaxOK

\* e.getMessage() of the exception the try block threw
Message(file, io) ==
  IF ~io THEN "(No such file or directory)" ELSE "No value present"

(* ----------------------- JavaFileParser ------------------------------- *)
\* does type t enclose (or equal) type u: u is found by t.findAll(...)
RECURSIVE Encloses(_, _, _)
Encloses(types, t, u) ==
  u # 0 /\ (u = t \/ Encloses(types, t, types[u].parent))

\* faulty variant: leaves out the calls whose receiver is itself a call
MethodCallsOfStatements(file, m) ==
  LET idx == SelectIdx(Len(file.calls),
                       LAMBDA i : /\ file.calls[i].method = m
                                  /\ file.calls[i].scopeKind # "call")
  IN [k \in 1..Len(idx) |-> file.calls[idx[k]].name]

\* body.findAll(MethodCallExpr.class): the simple names of the calls in
\* the body of method m
MethodCalls(file, m) ==
  LET idx == SelectIdx(Len(file.calls), LAMBDA i : file.calls[i].method = m)
  IN [k \in 1..Len(idx) |-> file.calls[idx[k]].name]

\* var.getInitializer().ifPresent(init -> info.put("initialValue", ...))
InitialValue(init) ==
  IF init # NULL THEN [initialValue |-> init] ELSE << >>

\* body.findAll(VariableDeclarator.class)
Variables(file, m) ==
  LET idx == SelectIdx(Len(file.locals), LAMBDA i : file.locals[i].method = m)
  IN [k \in 1..Len(idx) |->
        LET v == file.locals[idx[k]]
        IN [name |-> v.name, type |-> v.type] @@ InitialValue(v.init)]

\* faulty variant: a method without a body gets empty lists
MethodInfoWithEmptyLists(file, m) ==
  LET d == file.methods[m]
      head == [name |-> d.name, returnType |-> d.type, isPublic |-> d.isPublic,
               isStatic |-> d.isStatic, parameters |-> d.parameters]
  IN IF d.hasBody
     THEN head @@ [body |-> <<"body of", d.name>>,
                   methodCalls |-> MethodCalls(file, m),
                   variables |-> Variables(file, m)]
     ELSE head @@ [methodCalls |-> << >>, variables |-> << >>]

\* methodDecl.getBody().ifPresent(body -> { put body, methodCalls,
\* variables }): without a body none of the three keys is put

MethodInfo(file, m) ==
  LET d == file.methods[m]
      head == [name |-> d.name, returnType |-> d.type, isPublic |-> d.isPublic,
               isStatic |-> d.isStatic, parameters |-> d.parameters]
  IN IF d.hasBody
     THEN head @@ [body |-> <<"body of", d.name>>,
                   methodCalls |-> MethodCalls(file, m),
                   variables |-> Variables(file, m)]
     ELSE head

\* classDecl.findAll(MethodDeclaration.class): every method declaration
\* below the type declaration, those of nested types included
MethodsOf(file, t) ==
  LET idx == SelectIdx(Len(file.methods),
                       LAMBDA m : Encloses(file.types, t, file.methods[m].owner))
  IN [k \in 1..Len(idx) |-> MethodInfo(file, idx[k])]

\* var.getTypeAsString(): the declarator's own type, the statement's type
\* followed by the bracket pairs written after the name
DeclaratorType(type, v) == type \o [k \in 1..v.dims |-> "[]"]

\* faulty variant: one entry per field statement, for its first name only
RECURSIVE FieldsOfStatements(_)
FieldsOfStatements(decls) ==
  IF decls = << >> THEN << >>
  ELSE LET f == Head(decls)
       IN << [name |-> f.variables[1].name,
              type |-> DeclaratorType(f.type, f.variables[1]),
              isPublic |-> f.isPublic, isStatic |-> f.isStatic]
             @@ InitialValue(f.variables[1].init) >>
          \o FieldsOfStatements(Tail(decls))

\* classDecl.getFields() x field.getVariables(): one entry per declared name
RECURSIVE FieldsOf(_)
FieldsOf(decls) ==
  IF decls = << >> THEN << >>
  ELSE LET f == Head(decls)
       IN [i \in 1..Len(f.variables) |->
             [name |-> f.variables[i].name,
              type |-> DeclaratorType(f.type, f.variables[i]),
              isPublic |-> f.isPublic, isStatic |-> f.isStatic]
             @@ InitialValue(f.variables[i].init)]
          \o FieldsOf(Tail(decls))

ClassInfo(file, t) ==
  LET d == file.types[t]
  IN [name |-> d.name, isInterface |-> d.isInterface, extends |-> d.extended,
      implements |-> d.implemented, methods |-> MethodsOf(file, t),
      fields |-> FieldsOf(d.fields)]

\* JavaFileParser.parseFile
parseFile(file, io) ==
  IF ParseOK(file, io)
  THEN LET base == [file |-> file.path, imports |-> file.imports,
                    classes |-> [t \in 1..Len(file.types) |-> ClassInfo(file, t)]]
       IN IF file.pkg # NULL THEN base @@ [package |-> file.pkg] ELSE base
  ELSE [file |-> file.path, error |-> Message(file, io)]

(* ------------------------- SparkParser -------------------------------- *)
\* importName.startsWith("org.apache.spark") || contains("SparkSession") ||
\* contains("DataFrame") || contains("Dataset"), on identifier sequences
IsSparkImport(imp) ==
  \/ Len(imp) >= 3 /\ SubSeq(imp, 1, 3) = <<"org", "apache", "spark">>
  \/ \E i \in DOMAIN imp : imp[i] \in {"SparkSession", "DataFrame", "Dataset"}

\* SparkUsageVisitor.visit(MethodCallExpr)
IsSparkCall(name) ==
  \/ name \in SPARK_SOURCES \/ name \in SPARK_TRANSFORMS \/ name \in SPARK_SINKS
  \/ name \in {"builder", "getOrCreate", "sparkContext"}

\* SparkUsageVisitor.visit(VariableDeclarationExpr)
IsSparkType(type) ==
  \E i \in DOMAIN type : type[i] \in {"SparkSession", "DataFrame", "Dataset", "RDD"}

\* faulty variant: a file counts as a framework file only by its imports
isSparkFileByImports(file, io) ==
  IF ~ParseOK(file, io) THEN FALSE
  ELSE \E i \in DOMAIN file.imports : IsSparkImport(file.imports[i])

\* SparkParser.isSparkFile: opens and parses the file again; any exception
\* gives false
isSparkFile(file, io) ==
  IF ~ParseOK(file, io) THEN FALSE
  ELSE \/ \E i \in DOMAIN file.imports : IsSparkImport(file.imports[i])
       \/ \E i \in DOMAIN file.calls : IsSparkCall(file.calls[i].name)
       \/ \E i \in DOMAIN file.locals : IsSparkType(file.locals[i].type)

\* n.getArguments().forEach(a -> source.put("argument", a.toString())):
\* each put replaces the previous value of the one key
SourceArgument(c) ==
  IF Len(c.args) = 0 THEN << >> ELSE [argument |-> c.args[Len(c.args)]]

\* faulty variant: the vocabulary holds "Filter" where the code has "filter"
TransformMatchLoose(name) ==
  name \in (SPARK_TRANSFORMS \ {"filter"}) \/ name = "Filter"

\* SPARK_TRANSFORMS.contains(methodName)
TransformMatch(name) == name \in SPARK_TRANSFORMS

\* faulty variant: records the receiver whatever expression it is
StageScopeAny(c, key) ==
  IF c.scopeKind \in {"name", "call"} THEN key :> "df" ELSE << >>

\* n.getScope() mapped to a NameExpr, its name put under key if present
StageScope(c, key) ==
  IF c.scopeKind = "name" THEN key :> c.scopeName ELSE << >>

\* DataSourceVisitor
DataSourceVisitor(file) ==
  LET idx == SelectIdx(Len(file.calls), LAMBDA i : file.calls[i].name \in SPARK_SOURCES)
  IN [k \in 1..Len(idx) |->
        LET c == file.calls[idx[k]]
        IN [type |-> c.name] @@ SourceArgument(c) @@ StageScope(c, "scope")]

\* TransformationVisitor
TransformationVisitor(file) ==
  LET idx == SelectIdx(Len(file.calls),
                       LAMBDA i : TransformMatch(file.calls[i].name))
  IN [k \in 1..Len(idx) |->
        LET c == file.calls[idx[k]]
        IN [type |-> c.name, arguments |-> c.args] @@ StageScope(c, "dataframe")]

\* DataSinkVisitor
DataSinkVisitor(file) ==
  LET idx == SelectIdx(Len(file.calls),
                       LAMBDA i : file.calls[i].name \in SPARK_SINKS)
  IN [k \in 1..Len(idx) |->
        LET c == file.calls[idx[k]]
        IN [type |-> c.name, arguments |-> c.args] @@ StageScope(c, "dataframe")]

\* SparkParser.parseSparkFile: opens and parses the file a third time
parseSparkFile(file, io) ==
  IF ParseOK(file, io)
  THEN [sources |-> DataSourceVisitor(file),
        transformations |-> TransformationVisitor(file),
        sinks |-> DataSinkVisitor(file)]
  ELSE [error |-> Message(file, io)]

(* --------------------- backend: db and storeFileData ------------------ *)
Tables ==
  {"files", "classes", "methods", "fields", "method_calls", "variables",
   "spark_sources", "spark_transformations", "spark_sinks"}

\* the rows of each table in insertion order, and under serial the last
\* value each table's id SERIAL PRIMARY KEY sequence gave out
EmptyDb ==
  [files |-> << >>, classes |-> << >>, methods |-> << >>, fields |-> << >>,
   method_calls |-> << >>, variables |-> << >>, spark_sources |-> << >>,
   spark_transformations |-> << >>, spark_sinks |-> << >>,
   serial |-> [t \in Tables |-> 0]]

\* INSERT ... RETURNING id: the id is the next value of the table's
\* sequence, which a deletion never gives back
Insert(d, table, row) ==
  [d EXCEPT ![table] = Append(@, [id |-> d.serial[table] + 1] @@ row),
            !.serial[table] = @ + 1]

LastId(d, table) == d.serial[table]

RECURSIVE InsertAll(_, _, _)
InsertAll(d, table, rows) ==
  IF rows = << >> THEN d
  ELSE InsertAll(Insert(d, table, Head(rows)), table, Tail(rows))

\* the pool of a call of storeFileData: when faulty, it completes left
\* more queries and rejects the next; threw is whether a query rejected
Pool(faulty, left) == [faulty |-> faulty, left |-> left, threw |-> FALSE]

\* the tables as one call of storeFileData meets them
Connect(d, pool) == [pool |-> pool] @@ d

\* the tables alone
Disconnect(d) == [t \in DOMAIN d \ {"pool"} |-> d[t]]

\* await pool.query(query) for one INSERT of rows: after a rejected query
\* the caller has thrown and issues no further query
Query(d, table, rows) ==
  IF d.pool.threw THEN d
  ELSE IF d.pool.faulty /\ d.pool.left = 0 THEN [d EXCEPT !.pool.threw = TRUE]
  ELSE [InsertAll(d, table, rows) EXCEPT
          !.pool.left = IF d.pool.faulty THEN @ - 1 ELSE @]

\* for (const x of rows) await db.storeX(...): one query for each row
RECURSIVE QueryEach(_, _, _)
QueryEach(d, table, rows) ==
  IF rows = << >> THEN d
  ELSE QueryEach(Query(d, table, <<Head(rows)>>), table, Tail(rows))

\* db.storeMethod, then storeMethodCalls and storeVariables when non-empty
StoreMethod(d, classId, mi) ==
  LET d1 == Query(d, "methods",
              <<[class_id |-> classId, name |-> mi.name,
                 return_type |-> mi.returnType, is_public |-> mi.isPublic,
                 is_static |-> mi.isStatic, parameters |-> mi.parameters,
                 body |-> Get(mi, "body")]>>)
      mid == LastId(d1, "methods")
      d2 == IF "methodCalls" \in DOMAIN mi /\ Len(mi.methodCalls) > 0
            THEN Query(d1, "method_calls",
                   [i \in 1..Len(mi.methodCalls) |->
                      [method_id |-> mid, name |-> mi.methodCalls[i]]])
            ELSE d1
  IN IF "variables" \in DOMAIN mi /\ Len(mi.variables) > 0
     THEN Query(d2, "variables",
            [i \in 1..Len(mi.variables) |->
               [method_id |-> mid, name |-> mi.variables[i].name,
                type |-> mi.variables[i].type,
                initial_value |-> Get(mi.variables[i], "initialValue")]])
     ELSE d2

RECURSIVE StoreMethods(_, _, _)
StoreMethods(d, classId, ms) ==
  IF ms = << >> THEN d
  ELSE StoreMethods(StoreMethod(d, classId, Head(ms)), classId, Tail(ms))

\* db.storeClass, then its methods, then its fields
StoreClass(d, fileId, ci) ==
  LET d1 == Query(d, "classes",
              <<[file_id |-> fileId, name |-> ci.name,
                 is_interface |-> ci.isInterface, extends_class |-> ci.extends,
                 implements_interfaces |-> ci.implements]>>)
      cid == LastId(d1, "classes")
      d2 == StoreMethods(d1, cid, ci.methods)
  IN QueryEach(d2, "fields",
       [i \in 1..Len(ci.fields) |->
          [class_id |-> cid, name |-> ci.fields[i].name,
           type |-> ci.fields[i].type, is_public |-> ci.fields[i].isPublic,
           is_static |-> ci.fields[i].isStatic,
           initial_value |-> Get(ci.fields[i], "initialValue")]])

RECURSIVE StoreClasses(_, _, _)
StoreClasses(d, fileId, cs) ==
  IF cs = << >> THEN d
  ELSE StoreClasses(StoreClass(d, fileId, Head(cs)), fileId, Tail(cs))

\* fileData.sparkMetadata.X || []
StageList(sm, key) == IF key \in DOMAIN sm THEN sm[key] ELSE << >>

\* storeSparkSource / storeSparkTransformation / storeSparkSink for the
\* three lists of sparkMetadata.  A JSONB arguments column holds the list.
StoreSpark(d, fileId, sm) ==
  LET so == StageList(sm, "sources")
      tr == StageList(sm, "transformations")
      si == StageList(sm, "sinks")
      d1 == QueryEach(d, "spark_sources",
              [i \in 1..Len(so) |->
                 [file_id |-> fileId, type |-> so[i].type,
                  arguments |-> Get(so[i], "argument"),
                  variable_name |-> Get(so[i], "scope")]])
      d2 == QueryEach(d1, "spark_transformations",
              [i \in 1..Len(tr) |->
                 [file_id |-> fileId, type |-> tr[i].type,
                  arguments |-> Get(tr[i], "arguments"),
                  dataframe_name |-> Get(tr[i], "dataframe")]])
  IN QueryEach(d2, "spark_sinks",
       [i \in 1..Len(si) |->
          [file_id |-> fileId, type |-> si[i].type,
           arguments |-> Get(si[i], "arguments"),
           dataframe_name |-> Get(si[i], "dataframe")]])

\* path.basename: the last segment of the path
basename(path) == path[Len(path)]

\* the try block of storeFileData: the file row, its classes, its stages
StoreEntry(d, fileData, repoId) ==
  LET d1 == Query(d, "files",
              <<[repo_id |-> repoId, name |-> basename(fileData.file),
                 path |-> fileData.file,
                 package_name |-> Get(fileData, "package")]>>)
      fid == LastId(d1, "files")
      d2 == StoreClasses(d1, fid, StageList(fileData, "classes"))
  IN IF "sparkMetadata" \in DOMAIN fileData
     THEN StoreSpark(d2, fid, fileData.sparkMetadata)
     ELSE d2

\* faulty variant: a store that throws leaves every table empty
storeFileDataOrReset(d, fileData, repoId) ==
  LET s == IF Truthy(Get(fileData, "error")) THEN d
           ELSE StoreEntry(d, fileData, repoId)
  IN  IF s.pool.threw THEN [t \in DOMAIN s |-> IF t \in Tables THEN << >> ELSE s[t]]
      ELSE s

\* storeFileData: nothing is stored for an entry with a truthy error
storeFileData(d, fileData, repoId) ==
  IF Truthy(Get(fileData, "error")) THEN d
  ELSE StoreEntry(d, fileData, repoId)

\* faulty variant: removes the file's row, its classes and its stages, and
\* leaves the rows below its classes
DeleteFileAndChildren(d, fileId) ==
  LET KeepFile(r) == r.id # fileId
      KeepOfFile(r) == r.file_id # fileId
  IN [d EXCEPT !.files = SelectSeq(@, KeepFile),
               !.classes = SelectSeq(@, KeepOfFile),
               !.spark_sources = SelectSeq(@, KeepOfFile),
               !.spark_transformations = SelectSeq(@, KeepOfFile),
               !.spark_sinks = SelectSeq(@, KeepOfFile)]

\* DELETE FROM files WHERE id = fileId under the schema's foreign keys:
\* ON DELETE CASCADE from files to classes and the three stage tables,
\* from classes to methods and fields, from methods to method_calls and
\* variables
DeleteFile(d, fileId) ==
  LET classIds == {c.id : c \in {r \in Range(d.classes) : r.file_id = fileId}}
      methodIds == {m.id : m \in {r \in Range(d.methods) :
                                    r.class_id \in classIds}}
      KeepFile(r) == r.id # fileId
      KeepOfFile(r) == r.file_id # fileId
      KeepOfClass(r) == r.class_id \notin classIds
      KeepOfMethod(r) == r.method_id \notin methodIds
  IN [d EXCEPT !.files = SelectSeq(@, KeepFile),
               !.classes = SelectSeq(@, KeepOfFile),
               !.methods = SelectSeq(@, KeepOfClass),
               !.fields = SelectSeq(@, KeepOfClass),
               !.method_calls = SelectSeq(@, KeepOfMethod),
               !.variables = SelectSeq(@, KeepOfMethod),
               !.spark_sources = SelectSeq(@, KeepOfFile),
               !.spark_transformations = SelectSeq(@, KeepOfFile),
               !.spark_sinks = SelectSeq(@, KeepOfFile)]

(* ------------- db.getDataFlow and frontend processDataFlow ------------ *)
\* the rows of a stage table whose file belongs to the repository
FlowRows(d, table, repoId) ==
  {r \in Range(d[table]) :
     \E f \in Range(d.files) : f.id = r.file_id /\ f.repo_id = repoId}

getDataFlow(d, repoId) ==
  [sources |-> FlowRows(d, "spark_sources", repoId),
   transformations |-> FlowRows(d, "spark_transformations", repoId),
   sinks |-> FlowRows(d, "spark_sinks", repoId)]

Node(kind, row) == <<kind, row.id>>

Edge(from, to) == [source |-> from, target |-> to]

\* faulty variant: links without looking whether the source has a name
SourceEdgesAnyName(data) ==
  {Edge(Node("source", p[1]), Node("transformation", p[2])) :
     p \in {q \in data.sources \X data.transformations :
              q[2].dataframe_name = q[1].variable_name}}

\* source.variable_name truthy and transformation.dataframe_name === it
SourceEdges(data) ==
  {Edge(Node("source", p[1]), Node("transformation", p[2])) :
     p \in {q \in data.sources \X data.transformations :
              /\ Truthy(q[1].variable_name)
              /\ q[2].dataframe_name = q[1].variable_name}}

\* transformation.dataframe_name truthy and sink.dataframe_name === it
SinkEdges(data) ==
  {Edge(Node("transformation", p[1]), Node("sink", p[2])) :
     p \in {q \in data.transformations \X data.sinks :
              /\ Truthy(q[1].dataframe_name)
              /\ q[2].dataframe_name = q[1].dataframe_name}}

\* faulty variant: also links a transformation to itself
ChainEdgesSelf(data) ==
  {Edge(Node("transformation", p[1]), Node("transformation", p[2])) :
     p \in {q \in data.transformations \X data.transformations :
              /\ Truthy(q[1].dataframe_name)
              /\ q[2].dataframe_name = q[1].dataframe_name}}

\* nextTransformation.id !== transformation.id and same dataframe_name
ChainEdges(data) ==
  {Edge(Node("transformation", p[1]), Node("transformation", p[2])) :
     p \in {q \in data.transformations \X data.transformations :
              /\ Truthy(q[1].dataframe_name)
              /\ q[2].id # q[1].id
              /\ q[2].dataframe_name = q[1].dataframe_name}}

\* processDataFlow: the nodes and the edges pushed by the forEach loops
processDataFlow(data) ==
  [nodes |-> {Node("source", s) : s \in data.sources}
             \cup {Node("transformation", t) : t \in data.transformations}
             \cup {Node("sink", k) : k \in data.sinks},
   edges |-> SourceEdges(data) \cup SinkEdges(data) \cup ChainEdges(data)]

(* ------------------------------ state --------------------------------- *)
VARIABLES
  filesToParse,   \* Main: the files of the batch, File records
  pos,            \* Main: index of the file the loop is at
  pc,             \* position in the run
  fileMetadata,   \* Main: the map of the file being processed
  results,        \* Main: the result list
  invoked,        \* the parser invocations made so far, in order
  stdout,         \* the JSON the parser process wrote
  javaFiles,      \* backend: the files of the repository still to process
  db,             \* backend: the tables
  diagram,        \* frontend: the nodes and edges last computed
  repository,     \* chat: the row getRepositoryById returns, NoMap if none
  ragCache,       \* chat: the app setting rag-<repoId>, NoMap if not set
  ragLog,         \* chat: what the request did with a RAG system, in order
  response,       \* chat: the answer to the request, NoMap before it
  firstRun,       \* what an earlier run on the same files did, NoMap if none
  cmd,            \* Main: the command line and what its paths name
  outputFile,     \* Main: what was written to the -o file, NoMap if nothing
  console,        \* backend: the lines processRepository logged, in order
  requests        \* controllers: the handler invocations under way, in order

mainVars == <<filesToParse, pos, pc, fileMetadata, results, invoked, stdout,
              javaFiles, db, diagram, firstRun, cmd, outputFile,
              console>>

chatVars == <<repository, ragCache, ragLog, response, requests>>

vars == <<filesToParse, pos, pc, fileMetadata, results, invoked, stdout,
          javaFiles, db, diagram, repository, ragCache, ragLog, response,
          firstRun, cmd, outputFile, console, requests>>

\* the batches the model runs: lists of sample files, one generated
\* single-call file, one generated multi-call file, or one generated file
\* of field statements
BatchInputs ==
  {b \in UNION {[1..n -> SampleFiles] : n \in 1..MaxFiles} :
     \A i, j \in 2..Len(b) : i # j => b[i] # b[j]}
    \cup {<<g>> : g \in GenCallFiles \cup GenFlowFiles \cup GenFieldFiles}

\* findJavaFiles(repoPath): the files of a repository of several files,
\* each path once
Repositories ==
  {r \in UNION {[1..n -> SampleFiles] : n \in 2..MaxRepoFiles} :
     \A i, j \in DOMAIN r : i # j => r[i] # r[j]}

NoMap == << >>

\* an option that is not on the command line
NoOption == [given |-> FALSE]

\* -f <path>: whether the path names an existing regular file, and the file
FileOption(exists, file) == [given |-> TRUE, exists |-> exists, file |-> file]

\* -d <path>: whether the path names an existing directory, whether
\* Files.walk can read it through, and the files below it
DirectoryOption(exists, readable, entries) ==
  [given |-> TRUE, exists |-> exists, readable |-> readable,
   entries |-> entries]

\* -o <path>: whether Files.writeString can write there
OutputOption(writable) == [given |-> TRUE, writable |-> writable]

\* the command line: valid is whether DefaultParser accepts it
CommandLine(valid, help, file, directory, output) ==
  [valid |-> valid, help |-> help, file |-> file, directory |-> directory,
   output |-> output]

\* the command line of a run that met the files of the batch b: the first
\* through -f, the others, if any, below the directory of -d
RunOn(b) ==
  CommandLine(TRUE, FALSE, FileOption(TRUE, b[1]),
    IF Len(b) = 1 THEN NoOption
    ELSE DirectoryOption(TRUE, TRUE, Range(Tail(b))),
    NoOption)

NoDiagram == [nodes |-> {}, edges |-> {}]

\* a line of console.log or console.error about a file
Line(msg, file) == [msg |-> msg, file |-> file]

\* either one parser run on a batch, or processRepository at the first
\* file of a repository: one parser run per file, on that file alone
Init ==
  /\ \/ filesToParse \in BatchInputs /\ javaFiles = << >>
     \/ \E r \in Repositories :
          filesToParse = <<Head(r)>> /\ javaFiles = Tail(r)
  /\ pos = 1
  /\ pc = "parseFile"
  /\ fileMetadata = NoMap
  /\ results = << >>
  /\ invoked = << >>
  /\ stdout = << >>
  /\ db = EmptyDb
  /\ diagram = NoDiagram
  /\ repository = NoMap
  /\ ragCache = NoMap
  /\ ragLog = << >>
  /\ response = NoMap
  /\ firstRun = NoMap
  /\ cmd = RunOn(filesToParse)
  /\ outputFile = NoMap
  /\ console = <<Line("Parsing file", filesToParse[1].path)>>
  /\ requests = << >>

\* one call of a parser on the file at a position of the batch: io is
\* whether the file could be read, ok whether a syntax tree resulted
Invocation(op, file, io, ok) == [op |-> op, file |-> file, io |-> io, ok |-> ok]

\* a second run meets the files as the first run did: the read of the
\* file at position i succeeds for op if and only if it did for the
\* same file in the first run
SameAsFirstRun(op, i, io) ==
  firstRun # NoMap =>
    \E k \in DOMAIN firstRun.invoked :
      /\ firstRun.invoked[k].op = op
      /\ firstRun.invoked[k].file = firstRun.order[i]
      /\ firstRun.invoked[k].io = io

(* --------------------------- Main.main -------------------------------- *)
\* Map<String,Object> fileMetadata = javaParser.parseFile(file);
ParseFile ==
  /\ pc = "parseFile"
  /\ \E io \in BOOLEAN :
       /\ SameAsFirstRun("parseFile", pos, io)
       /\ fileMetadata' = parseFile(filesToParse[pos], io)
       /\ invoked' = Append(invoked,
            Invocation("parseFile", pos, io, ParseOK(filesToParse[pos], io)))
  /\ pc' = "isSparkFile"
  /\ UNCHANGED <<chatVars, firstRun, cmd, outputFile, console>>
  /\ UNCHANGED <<filesToParse, pos, results, stdout, javaFiles, db, diagram>>

\* if (sparkParser.isSparkFile(file)) { ... }
SparkStepNext(metadata, isSpark) ==
  IF isSpark THEN "parseSparkFile" ELSE "add"

IsSparkFile ==
  /\ pc = "isSparkFile"
  /\ \E io \in BOOLEAN :
       /\ SameAsFirstRun("isSparkFile", pos, io)
       /\ pc' = SparkStepNext(fileMetadata, isSparkFile(filesToParse[pos], io))
       /\ invoked' = Append(invoked,
            Invocation("isSparkFile", pos, io, ParseOK(filesToParse[pos], io)))
  /\ UNCHANGED <<chatVars, firstRun, cmd, outputFile, console>>
  /\ UNCHANGED <<filesToParse, pos, fileMetadata, results, stdout, javaFiles, db,
                 diagram>>

\* faulty variant: turns a classifier failure into the file's error entry
PutSparkMetadataAsError(metadata, sparkMetadata) ==
  IF "error" \in DOMAIN sparkMetadata
  THEN [file |-> metadata.file, error |-> sparkMetadata.error]
  ELSE [sparkMetadata |-> sparkMetadata] @@ metadata

\* fileMetadata.put("sparkMetadata", sparkMetadata)
PutSparkMetadata(metadata, sparkMetadata) ==
  [sparkMetadata |-> sparkMetadata] @@ metadata

\* Map<String,Object> sparkMetadata = sparkParser.parseSparkFile(file);
ParseSparkFile ==
  /\ pc = "parseSparkFile"
  /\ \E io \in BOOLEAN :
       /\ SameAsFirstRun("parseSparkFile", pos, io)
       /\ fileMetadata' =
            PutSparkMetadata(fileMetadata, parseSparkFile(filesToParse[pos], io))
       /\ invoked' = Append(invoked,
            Invocation("parseSparkFile", pos, io, ParseOK(filesToParse[pos], io)))
  /\ pc' = "add"
  /\ UNCHANGED <<chatVars, firstRun, cmd, outputFile, console>>
  /\ UNCHANGED <<filesToParse, pos, results, stdout, javaFiles, db, diagram>>

\* faulty variant: each entry carries its position in the list
AddResultNumbered(list, metadata) ==
  Append(list, [index |-> Len(list) + 1] @@ metadata)

\* faulty variant: leaves the entries of failed files out of the list
AddResultSkipErrors(list, metadata) ==
  IF "error" \in DOMAIN metadata THEN list ELSE Append(list, metadata)

\* results.add(fileMetadata)
AddResult(list, metadata) == Append(list, metadata)

\* results.add(fileMetadata); and the loop's advance to the next file
Add ==
  /\ pc = "add"
  /\ results' = AddResult(results, fileMetadata)
  /\ pos' = pos + 1
  /\ pc' = IF pos + 1 > Len(filesToParse) THEN "output" ELSE "parseFile"
  /\ fileMetadata' = NoMap
  /\ UNCHANGED <<chatVars, firstRun, cmd, outputFile, console>>
  /\ UNCHANGED <<filesToParse, invoked, stdout, javaFiles, db, diagram>>

\* faulty variant: the run fails when a file of the list failed
exitCodeFailingOnErrors(c, list) ==
  IF \/ c.output.given /\ ~c.output.writable
     \/ \E k \in DOMAIN list : "error" \in DOMAIN list[k]
  THEN 1 ELSE 0

\* the exit code of a run that reached the output of the list: 1 when
\* Files.writeString throws into the catch of main, else 0
exitCode(c, list) ==
  IF c.output.given /\ ~c.output.writable THEN 1 ELSE 0

\* the whole result list is written, to the -o file if there is one, else
\* to standard output
WriteOutput ==
  /\ pc = "output"
  /\ IF exitCode(cmd, results) = 1
     THEN pc' = "exit1" /\ UNCHANGED <<stdout, outputFile>>
     ELSE /\ pc' = "exit0"
          /\ IF cmd.output.given
             THEN outputFile' = results /\ UNCHANGED stdout
             ELSE stdout' = results /\ UNCHANGED outputFile
  /\ UNCHANGED <<chatVars, firstRun, cmd, console>>
  /\ UNCHANGED <<filesToParse, pos, fileMetadata, results, invoked, javaFiles, db,
                 diagram>>

(* ----------------------- backend and frontend ------------------------- *)
\* processRepository: fileData = JSON.parse(stdout);
\* await storeFileData(fileData[0], repoId)
\* the lines storeFileData and the catch of the loop log for an entry
StoreLines(fileData, threw) ==
  IF Truthy(Get(fileData, "error"))
  THEN <<Line("Error parsing file", fileData.file)>>
  ELSE IF threw
  THEN <<Line("Error storing file data for", fileData.file),
         Line("Error processing file", fileData.file)>>
  ELSE <<Line("Successfully stored data for file", fileData.file)>>

\* the pools a call of storeFileData may meet: one that completes every
\* query, or one that rejects a query after up to MaxQueries completed ones
Pools == {Pool(FALSE, 0)} \cup {Pool(TRUE, k) : k \in 0..MaxQueries}

StoreFileData ==
  /\ pc = "exit0"
  /\ \E pool \in Pools :
       LET d == storeFileData(Connect(db, pool), stdout[1], 1)
       IN  /\ db' = Disconnect(d)
           /\ console' = console \o StoreLines(stdout[1], d.pool.threw)
  /\ pc' = "stored"
  /\ UNCHANGED <<chatVars, firstRun, cmd, outputFile>>
  /\ UNCHANGED <<filesToParse, pos, fileMetadata, results, invoked, stdout,
                 javaFiles, diagram>>

\* faulty variant: a file whose store failed is processed again
NextFileRetrying ==
  LET retry == console[Len(console)].msg = "Error processing file"
      next == IF retry THEN filesToParse[1] ELSE Head(javaFiles)
  IN  /\ pc = "stored"
      /\ retry \/ javaFiles # << >>
      /\ filesToParse' = <<next>>
      /\ javaFiles' = IF retry THEN javaFiles ELSE Tail(javaFiles)
      /\ pos' = 1
      /\ pc' = "parseFile"
      /\ fileMetadata' = NoMap
      /\ results' = << >>
      /\ invoked' = << >>
      /\ stdout' = << >>
      /\ cmd' = RunOn(<<next>>)
      /\ console' = Append(console, Line("Parsing file", next.path))
      /\ UNCHANGED <<chatVars, firstRun, outputFile>>
      /\ UNCHANGED <<db, diagram>>

\* processRepository: for (const filePath of javaFiles): the next file is
\* handed to a parser process of its own
NextFile ==
  /\ pc = "stored"
  /\ javaFiles # << >>
  /\ filesToParse' = <<Head(javaFiles)>>
  /\ javaFiles' = Tail(javaFiles)
  /\ pos' = 1
  /\ pc' = "parseFile"
  /\ fileMetadata' = NoMap
  /\ results' = << >>
  /\ invoked' = << >>
  /\ stdout' = << >>
  /\ cmd' = RunOn(<<Head(javaFiles)>>)
  /\ console' = Append(console, Line("Parsing file", Head(javaFiles).path))
  /\ UNCHANGED <<chatVars, firstRun, outputFile>>
  /\ UNCHANGED <<db, diagram>>

\* the record of one stored file is deleted
DeleteFileRecord ==
  /\ pc = "stored"
  /\ \E f \in Range(db.files) : db' = DeleteFile(db, f.id)
  /\ UNCHANGED <<chatVars, firstRun, cmd, outputFile, console>>
  /\ UNCHANGED <<filesToParse, pos, pc, fileMetadata, results, invoked, stdout,
                 javaFiles, diagram>>

\* DataFlowDiagram: processDataFlow(await api.getDataFlow(repositoryId))
ViewDataFlow ==
  /\ pc = "stored"
  /\ diagram' = processDataFlow(getDataFlow(db, 1))
  /\ pc' = "viewed"
  /\ UNCHANGED <<chatVars, firstRun, cmd, outputFile, console>>
  /\ UNCHANGED <<filesToParse, pos, fileMetadata, results, invoked, stdout,
                 javaFiles, db>>

Next ==
  \/ ParseFile
  \/ IsSparkFile
  \/ ParseSparkFile
  \/ Add
  \/ WriteOutput
  \/ StoreFileData
  \/ NextFile
  \/ DeleteFileRecord
  \/ ViewDataFlow

Spec == Init /\ [][Next]_vars

(* ----------------------- Main.main from its start --------------------- *)
\* path.toString().endsWith(".java")
endsWithJava(path) == basename(path) \in {basename(f.path) : f \in SampleFiles}

\* the command lines Main is started on.  -f names no file or one of a
\* framework file, a plain file and a file without a syntax tree; -d names
\* no directory, one that cannot be read, or one holding some of these
\* files and a file that is no Java file
CommandLines ==
  LET files == {PipelineJava, OuterJava, BrokenJava}
      missing == [path |-> <<"repo", "Missing.java">>]
      notes == [path |-> <<"repo", "notes.txt">>]
      fileOptions ==
        {NoOption, FileOption(FALSE, missing)}
          \cup {FileOption(TRUE, f) : f \in files}
      directoryOptions ==
        {NoOption, DirectoryOption(FALSE, FALSE, {}),
         DirectoryOption(TRUE, FALSE, {})}
          \cup {DirectoryOption(TRUE, TRUE, S) :
                  S \in {T \in SUBSET (files \cup {notes}) :
                           Cardinality(T) <= MaxEntries}}
      outputOptions == {NoOption, OutputOption(TRUE), OutputOption(FALSE)}
  IN  {CommandLine(TRUE, h, f, d, o) :
         h \in BOOLEAN, f \in fileOptions, d \in directoryOptions,
         o \in outputOptions}
        \cup {CommandLine(FALSE, FALSE, NoOption, NoOption, NoOption)}

\* the orders in which Files.walk may meet the entries of a directory
Walks(S) ==
  {w \in [1..Cardinality(S) -> S] : \A i, j \in DOMAIN w : i # j => w[i] # w[j]}

\* Main.main up to the loop, for a walk of the directory: the files to
\* parse, or the way the run ends before any file is parsed
HandleOptions(c, walk) ==
  LET single == IF c.file.given THEN <<c.file.file>> ELSE << >>
      below == IF c.directory.given
               THEN SelectSeq(walk, LAMBDA e : endsWithJava(e.path))
               ELSE << >>
  IN  IF ~c.valid THEN [pc |-> "exit1", files |-> << >>]
      ELSE IF c.help THEN [pc |-> "exit0", files |-> << >>]
      ELSE IF c.file.given /\ ~c.file.exists
        THEN [pc |-> "exit1", files |-> << >>]
      ELSE IF c.directory.given
                /\ (~c.directory.exists \/ ~c.directory.readable)
        THEN [pc |-> "exit1", files |-> single]
      ELSE IF single \o below = << >> THEN [pc |-> "exit1", files |-> << >>]
      ELSE [pc |-> "parseFile", files |-> single \o below]

ParseOptions ==
  /\ pc = "main"
  /\ \E walk \in Walks(IF cmd.directory.given THEN cmd.directory.entries
                         ELSE {}) :
       /\ filesToParse' = HandleOptions(cmd, walk).files
       /\ pc' = HandleOptions(cmd, walk).pc
  /\ UNCHANGED <<chatVars, firstRun, cmd, outputFile, console>>
  /\ UNCHANGED <<pos, fileMetadata, results, invoked, stdout, javaFiles, db,
                 diagram>>

InitMain ==
  /\ cmd \in CommandLines
  /\ filesToParse = << >>
  /\ javaFiles = << >>
  /\ pos = 1
  /\ pc = "main"
  /\ fileMetadata = NoMap
  /\ results = << >>
  /\ invoked = << >>
  /\ stdout = << >>
  /\ db = EmptyDb
  /\ diagram = NoDiagram
  /\ repository = NoMap
  /\ ragCache = NoMap
  /\ ragLog = << >>
  /\ response = NoMap
  /\ firstRun = NoMap
  /\ outputFile = NoMap
  /\ console = << >>
  /\ requests = << >>

NextMain ==
  \/ ParseOptions
  \/ ParseFile
  \/ IsSparkFile
  \/ ParseSparkFile
  \/ Add
  \/ WriteOutput

SpecMain == InitMain /\ [][NextMain]_vars

(* ------------------------- a second run ------------------------------- *)
\* the orders in which a run may meet the n files of the batch
Orders(n) == {p \in [1..n -> 1..n] : \A i, j \in 1..n : i # j => p[i] # p[j]}

\* Main is run again on the same files, met in any order: a new process
\* with a new result list.  firstRun keeps what the first run reported
\* and did, and which file of the first run each position now holds
Rerun ==
  /\ pc = "exit0"
  /\ firstRun = NoMap
  /\ \E order \in Orders(Len(filesToParse)) :
       /\ filesToParse' = [i \in DOMAIN filesToParse |-> filesToParse[order[i]]]
       /\ firstRun' = [results |-> stdout, invoked |-> invoked, order |-> order]
  /\ pos' = 1
  /\ pc' = "parseFile"
  /\ fileMetadata' = NoMap
  /\ results' = << >>
  /\ invoked' = << >>
  /\ stdout' = << >>
  /\ UNCHANGED <<javaFiles, db, diagram, cmd, outputFile, console>>
  /\ UNCHANGED chatVars

\* the batches run twice: lists of sample files
InitTwice ==
  /\ Init
  /\ filesToParse \in UNION {[1..n -> SampleFiles] : n \in 1..MaxFiles}
  /\ javaFiles = << >>

NextTwice ==
  \/ ParseFile
  \/ IsSparkFile
  \/ ParseSparkFile
  \/ Add
  \/ WriteOutput
  \/ Rerun

SpecTwice == InitTwice /\ [][NextTwice]_vars

(* ------------------- chat controller and RAG system ------------------- *)
\* a query is a string, kept as the sequence of its characters, or null;
\* Blank stands for a whitespace character
Blank == " "

\* a null query (JSON null, or no query in the body)
NoQuery == <<NULL>>

Queries == UNION {[1..n -> {Blank, "a"}] : n \in 0..MaxQueryLen}

\* String.prototype.trim()
RECURSIVE trim(_)
trim(q) ==
  IF q = << >> THEN q
  ELSE IF Head(q) = Blank THEN trim(Tail(q))
  ELSE IF q[Len(q)] = Blank THEN trim(SubSeq(q, 1, Len(q) - 1))
  ELSE q

\* the values the controllers and the schema give repositories.status
Statuses == {"pending", "processing", "processed", "partial", "error"}

\* the clone path of the repository, the segments of an absolute path
RepoPath == <<"repos", "1">>

Repository(status, clonePath) ==
  [id |-> 1, name |-> "repo", status |-> status, clone_path |-> clonePath]

\* next(badRequestError(message)) as the client sees it
badRequestError(message) == [status |-> 400, error |-> message]

notFoundError(message) == [status |-> 404, error |-> message]

serverError(message) == [status |-> 500, error |-> message]

\* res.json(body)
Json(body) == [status |-> 200, body |-> body]

\* new RoamingRagSystem(repoId, repoPath)
RoamingRagSystem(repoId, repoPath) == [repoId |-> repoId, repoPath |-> repoPath]

\* RoamingRagSystem.queryCodebase: the logger line reads query.slice
\* before the validation, inside the try; the catch turns the TypeError
\* of a null query into the error text.  calls: the model and tool
\* invocations made, none on any path
queryCodebase(query) ==
  IF query = NoQuery
  THEN [text |-> <<"I encountered an error while processing your query:",
                   "Cannot read properties of null (reading 'slice')">>,
        calls |-> << >>]
  ELSE IF Len(query) = 0 \/ Len(trim(query)) = 0
  THEN [text |-> <<"Please provide a valid query about the codebase.">>,
        calls |-> << >>]
  ELSE [text |-> <<"# Repository Analysis", query>>, calls |-> << >>]

\* what a handler hands back: the response, the app setting afterwards
\* and what it did with a RAG system
Handled(resp, cache, log) == [response |-> resp, cache |-> cache, log |-> log]

\* !query || query.trim().length < 5
QueryTooShort(query) ==
  query = NoQuery \/ Len(query) = 0 \/ Len(trim(query)) < 5

\* the rest of either handler once the RAG system is there
QueryAndAnswer(ragSystem, query, log) ==
  Handled(Json([response |-> queryCodebase(query).text]), ragSystem,
          Append(log, "queryCodebase"))

\* chatWithCodebase, the controller that checks the status.  initOk:
\* whether ragSystem.initialize() reaches the model
chatWithCodebase(query, repo, cache, initOk) ==
  IF QueryTooShort(query)
  THEN Handled(badRequestError("Chat query must be at least 5 characters"),
               cache, << >>)
  ELSE IF repo = NoMap
  THEN Handled(notFoundError("Repository not found"), cache, << >>)
  ELSE IF repo.status # "processed"
  THEN Handled(badRequestError("Repository analysis is not complete yet"),
               cache, << >>)
  ELSE IF cache # NoMap THEN QueryAndAnswer(cache, query, << >>)
  ELSE IF initOk
  THEN QueryAndAnswer(RoamingRagSystem(repo.id, repo.clone_path), query,
                      <<"new", "initialize", "set">>)
  ELSE Handled(serverError("Failed to process chat query"), cache,
               <<"new", "initialize">>)

\* repository.clone_path || path.join(REPO_STORAGE_PATH, repoId)
DefaultRepoPath(repo) ==
  IF repo.clone_path # << >> THEN repo.clone_path ELSE <<"repositories", "1">>

\* chatWithCodebase, the controller with the mock answers: only the
\* status pending is answered without a RAG system
chatWithCodebaseWithMock(query, repo, cache, initOk) ==
  IF QueryTooShort(query)
  THEN Handled(badRequestError("Chat query must be at least 5 characters"),
               cache, << >>)
  ELSE IF repo = NoMap
  THEN Handled(notFoundError("Repository not found"), cache, << >>)
  ELSE IF repo.status = "pending"
  THEN Handled(Json([response |-> <<"# Repository Analysis", "mock", query>>]),
               cache, << >>)
  ELSE IF cache # NoMap THEN QueryAndAnswer(cache, query, << >>)
  ELSE IF initOk
  THEN QueryAndAnswer(RoamingRagSystem(repo.id, DefaultRepoPath(repo)), query,
                      <<"new", "initialize", "set">>)
  ELSE Handled(Json([response |-> <<"I'm unable to analyze this repository">>]),
               cache, <<"new", "initialize">>)

\* the two controllers of the repository
Controllers == {"chatWithCodebase", "chatWithCodebaseWithMock"}

Handle(controller, query, repo, cache, initOk) ==
  IF controller = "chatWithCodebase"
  THEN chatWithCodebase(query, repo, cache, initOk)
  ELSE chatWithCodebaseWithMock(query, repo, cache, initOk)

\* the chat side starts with any repository row (or none) and with or
\* without a RAG system set for it; the parser side is at rest
InitChat ==
  /\ filesToParse = << >>
  /\ pos = 1
  /\ pc = "idle"
  /\ fileMetadata = NoMap
  /\ results = << >>
  /\ invoked = << >>
  /\ stdout = << >>
  /\ javaFiles = << >>
  /\ db = EmptyDb
  /\ diagram = NoDiagram
  /\ repository \in {NoMap} \cup {Repository(st, RepoPath) : st \in Statuses}
  /\ ragCache \in {NoMap, RoamingRagSystem(1, RepoPath)}
  /\ ragLog = << >>
  /\ response = NoMap
  /\ firstRun = NoMap
  /\ cmd = NoMap
  /\ outputFile = NoMap
  /\ console = << >>
  /\ requests = << >>

\* POST /api/repositories/:repoId/chat, handled by either controller
ChatWithCodebase ==
  /\ response = NoMap
  /\ \E controller \in Controllers, query \in Queries \cup {NoQuery},
        initOk \in BOOLEAN :
       LET h == Handle(controller, query, repository, ragCache, initOk)
       IN /\ response' = [request |-> "chat", query |-> query] @@ h.response
          /\ ragCache' = h.cache
          /\ ragLog' = h.log
  /\ UNCHANGED <<repository, requests>>
  /\ UNCHANGED mainVars

\* ragSystem.queryCodebase(query) called on an initialized system
QueryCodebase ==
  /\ response = NoMap
  /\ ragCache # NoMap
  /\ \E query \in Queries \cup {NoQuery} :
       /\ response' = [request |-> "queryCodebase", query |-> query,
                       text |-> queryCodebase(query).text]
       /\ ragLog' = <<"queryCodebase">> \o queryCodebase(query).calls
  /\ UNCHANGED <<repository, ragCache, requests>>
  /\ UNCHANGED mainVars

\* a file path handed to a tool: whether it starts with a slash, and its
\* segments.  The segments cover a plain name, the two dot names and names
\* that only begin or end with two dots
Path(absolute, segs) == [absolute |-> absolute, segs |-> segs]

Segments == {"a", ".", "..", "..a", "a.."}

FilePaths ==
  {Path(abs, segs) :
     abs \in BOOLEAN,
     segs \in UNION {[1..n -> Segments] : n \in 0..MaxSegments}}

\* path.normalize on the segments: "." dropped, ".." takes back the
\* segment before it, is dropped at the root of an absolute path and is
\* kept at the front of a relative one
RECURSIVE NormalizeSegs(_, _, _)
NormalizeSegs(segs, acc, absolute) ==
  IF segs = << >> THEN acc
  ELSE LET seg == Head(segs)
           next ==
             IF seg = "." THEN acc
             ELSE IF seg = ".."
             THEN IF acc # << >> /\ acc[Len(acc)] # ".."
                  THEN SubSeq(acc, 1, Len(acc) - 1)
                  ELSE IF absolute THEN acc ELSE Append(acc, "..")
             ELSE Append(acc, seg)
       IN NormalizeSegs(Tail(segs), next, absolute)

normalize(p) == Path(p.absolute, NormalizeSegs(p.segs, << >>, p.absolute))

\* normalizedPath.startsWith('..')
StartsWithDotDot(p) ==
  ~p.absolute /\ p.segs # << >> /\ p.segs[1] \in {"..", "..a"}

\* normalizedPath.includes('../'): a segment ending in two dots with a
\* slash after it
IncludesDotDotSlash(p) ==
  \E i \in 1..(Len(p.segs) - 1) : p.segs[i] \in {"..", "a.."}

\* faulty variant: only the two dots before a slash are looked for
IsTraversalInside(p) == IncludesDotDotSlash(p)

\* the security check of read_file_content
IsTraversal(p) == StartsWithDotDot(p) \/ IncludesDotDotSlash(p)

\* path.join(this.repoPath, normalizedPath)
join(repoPath, p) == normalize(Path(TRUE, repoPath \o p.segs))

\* what the file system holds at the full path
FsOutcomes == {"missing", "large", "ok"}

\* read_file_content: the tool's result and, under fullPath, the path the
\* file system was asked about
readFileContent(filePath, repoPath, fs) ==
  IF ~filePath.absolute /\ filePath.segs = << >>
  THEN [result |-> [error |-> "File path is required"]]
  ELSE IF IsTraversal(normalize(filePath))
  THEN [result |-> [error |-> "Invalid file path: Path traversal not allowed"]]
  ELSE LET fullPath == join(repoPath, normalize(filePath))
       IN IF fs = "missing"
          THEN [result |-> [error |-> "File not found"], fullPath |-> fullPath]
          ELSE IF fs = "large"
          THEN [result |-> [error |-> "File is too large"],
                fullPath |-> fullPath]
          ELSE [result |-> [path |-> filePath, content |-> <<"content of", fullPath>>],
                fullPath |-> fullPath]

\* the read_file_content tool of an initialized system is called
ReadFileContent ==
  /\ response = NoMap
  /\ ragCache # NoMap
  /\ \E filePath \in FilePaths, fs \in FsOutcomes :
       response' = [request |-> "read_file_content", filePath |-> filePath]
                     @@ readFileContent(filePath, ragCache.repoPath, fs)
  /\ ragLog' = <<"read_file_content">>
  /\ UNCHANGED <<repository, ragCache, requests>>
  /\ UNCHANGED mainVars

NextChat ==
  \/ ChatWithCodebase
  \/ QueryCodebase
  \/ ReadFileContent

SpecChat == InitChat /\ [][NextChat]_vars

(* ----------------- controller: processRepository ---------------------- *)
\* the parser side and the chat side at rest
Quiet ==
  /\ filesToParse = << >>
  /\ pos = 1
  /\ pc = "idle"
  /\ fileMetadata = NoMap
  /\ results = << >>
  /\ invoked = << >>
  /\ stdout = << >>
  /\ javaFiles = << >>
  /\ diagram = NoDiagram
  /\ ragLog = << >>
  /\ response = NoMap
  /\ firstRun = NoMap
  /\ cmd = NoMap
  /\ outputFile = NoMap
  /\ console = << >>

\* an invocation of a handler: where it is, the error it caught and what
\* it did, in order
Request(handler, at) ==
  [handler |-> handler, pc |-> at, error |-> NULL, log |-> << >>]

\* db.updateRepositoryStatus(id, status, message): the row afterwards
updateRepositoryStatus(repo, status, message) ==
  [error_message |-> message] @@ [repo EXCEPT !.status = status]

\* what an awaited update may do: complete, reject before the row is
\* written, or reject after it was written
UpdateOutcomes == {"ok", "rejected", "lost"}

\* faulty variant: the error is swallowed and the handler returns
CaughtAndDone(req, message) ==
  [req EXCEPT !.pc = "done", !.log = Append(@, "caught")]

\* control passes to the catch block of processRepository with the error
Caught(req, message) ==
  [req EXCEPT !.pc = "catch", !.error = message, !.log = Append(@, "caught")]

\* await cloneRepository(url, clone_path): git clone exits with 0 or not
CloneRepository ==
  /\ requests[1].pc = "clone"
  /\ \E ok \in BOOLEAN :
       requests' = [requests EXCEPT ![1] =
         IF ok THEN [@ EXCEPT !.pc = "processJavaFiles",
                              !.log = Append(@, "cloned")]
         ELSE Caught(@, "Git clone failed")]
  /\ UNCHANGED <<repository, ragCache, ragLog, response>>
  /\ UNCHANGED mainVars

\* await processJavaFiles(id, clone_path): no jar in lib, or the parser
\* process exits with 0 or not.  Main rejects the options --repo-id and
\* --repo-path, so the jar built from this repository exits with 1
ProcessJavaFiles ==
  /\ requests[1].pc = "processJavaFiles"
  /\ \E outcome \in {"ok", "Java parser JAR not found", "Java parser failed"} :
       requests' = [requests EXCEPT ![1] =
         IF outcome = "ok"
         THEN [@ EXCEPT !.pc = "updateProcessed", !.log = Append(@, "parsed")]
         ELSE Caught(@, outcome)]
  /\ UNCHANGED <<repository, ragCache, ragLog, response>>
  /\ UNCHANGED mainVars

\* await db.updateRepositoryStatus(repository.id, 'processed')
UpdateProcessed ==
  /\ requests[1].pc = "updateProcessed"
  /\ \E o \in UpdateOutcomes :
       /\ repository' =
            IF o = "rejected" THEN repository
            ELSE updateRepositoryStatus(repository, "processed", NULL)
       /\ requests' = [requests EXCEPT ![1] =
            LET r == IF o = "rejected" THEN @
                     ELSE [@ EXCEPT !.log = Append(@, "status processed")]
            IN  IF o = "ok" THEN [r EXCEPT !.pc = "done"]
                ELSE Caught(r, "update failed")]
  /\ UNCHANGED <<ragCache, ragLog, response>>
  /\ UNCHANGED mainVars

\* catch: await db.updateRepositoryStatus(repository.id, 'error', message),
\* a failure of which is logged only
UpdateError ==
  /\ requests[1].pc = "catch"
  /\ \E o \in UpdateOutcomes :
       /\ repository' =
            IF o = "rejected" THEN repository
            ELSE updateRepositoryStatus(repository, "error", requests[1].error)
       /\ requests' = [requests EXCEPT ![1] =
            LET r == IF o = "rejected" THEN @
                     ELSE [@ EXCEPT !.log = Append(@, "status error")]
            IN  [r EXCEPT !.pc = "done",
                          !.log = IF o = "ok" THEN @
                                  ELSE Append(@, "Failed to update repository status")]]
  /\ UNCHANGED <<ragCache, ragLog, response>>
  /\ UNCHANGED mainVars

\* processRepository(repository) is called on a repository row
InitProcess ==
  /\ Quiet
  /\ db = EmptyDb
  /\ repository \in {Repository(st, p) : st \in Statuses, p \in {RepoPath, << >>}}
  /\ ragCache = NoMap
  /\ requests = <<Request("processRepository", "clone")>>

NextProcess ==
  \/ CloneRepository
  \/ ProcessJavaFiles
  \/ UpdateProcessed
  \/ UpdateError

\* every awaited promise settles
SpecProcess == InitProcess /\ [][NextProcess]_vars /\ WF_vars(NextProcess)

(* ------------- controllers: chat, delete and reindex requests --------- *)
\* db.storeFile(repoId, name, path, packageName): the INSERT is rejected
\* when a NOT NULL column gets no value
storeFile(d, repoId, name, path, packageName) ==
  IF name = NULL \/ path = NULL THEN [d EXCEPT !.pool.threw = TRUE]
  ELSE Query(d, "files",
         <<[repo_id |-> repoId, name |-> name, path |-> path,
            package_name |-> packageName]>>)

\* db.deleteFilesByRepositoryId(id), and the cascade of db.deleteRepository:
\* the file records of the repository go, and with each what hangs on it
RECURSIVE deleteFilesByRepositoryId(_, _)
deleteFilesByRepositoryId(d, repoId) ==
  LET ids == {f.id : f \in {g \in Range(d.files) : g.repo_id = repoId}}
  IN  IF ids = {} THEN d
      ELSE deleteFilesByRepositoryId(DeleteFile(d, CHOOSE i \in ids : TRUE), repoId)

\* what the requests share: the repository row and the tables, the app
\* setting rag-<id>, the log, and the requests themselves
App ==
  [repository |-> repository, db |-> db, ragCache |-> ragCache,
   ragLog |-> ragLog, console |-> console, requests |-> requests]

\* the handler of request i ends with the response status
Finish(a, i, status) ==
  [a EXCEPT !.requests[i].pc = "done", !.requests[i].log = Append(@, status)]

\* one step of a handler, from one await to the next, leads to a
Apply(a) ==
  /\ repository' = a.repository
  /\ db' = a.db
  /\ ragCache' = a.ragCache
  /\ ragLog' = a.ragLog
  /\ console' = a.console
  /\ requests' = a.requests
  /\ UNCHANGED <<filesToParse, pos, pc, fileMetadata, results, invoked, stdout,
                 javaFiles, diagram, response, firstRun, cmd, outputFile>>

\* chatWithCodebase between its awaits: after getRepositoryById the checks
\* and req.app.get, then initialize() of a new system if none was set;
\* after initialize() req.app.set and queryCodebase; then res.json
ChatRequestStep(i) ==
  /\ requests[i].handler = "chat"
  /\ requests[i].pc # "done"
  /\ \E ok \in BOOLEAN :
       Apply(
         CASE requests[i].pc = "getRepositoryById" ->
                IF repository = NoMap THEN Finish(App, i, "404")
                ELSE IF repository.status # "processed" THEN Finish(App, i, "400")
                ELSE IF ragCache = NoMap
                THEN [App EXCEPT !.requests[i].pc = "initialize",
                                 !.ragLog = Append(@, "initialize")]
                ELSE [App EXCEPT !.requests[i].pc = "queryCodebase"]
           [] requests[i].pc = "initialize" ->
                IF ok
                THEN [App EXCEPT !.requests[i].pc = "queryCodebase",
                                 !.ragCache = RoamingRagSystem(1, RepoPath)]
                ELSE Finish(App, i, "500")
           [] requests[i].pc = "queryCodebase" ->
                Finish([App EXCEPT !.ragLog = Append(@, "queryCodebase")],
                       i, "200"))

\* deleteRepository between its awaits: after getRepositoryById the check;
\* db.deleteRepository removes the row and, by cascade, its files; then
\* the directory and the app setting rag-<id> are cleared
DeleteRequestStep(i) ==
  /\ requests[i].handler = "delete"
  /\ requests[i].pc # "done"
  /\ Apply(
       CASE requests[i].pc = "getRepositoryById" ->
              IF repository = NoMap THEN Finish(App, i, "404")
              ELSE [App EXCEPT !.requests[i].pc = "deleteRepository"]
         [] requests[i].pc = "deleteRepository" ->
              [App EXCEPT !.requests[i].pc = "cleanUp",
                          !.repository = NoMap,
                          !.db = deleteFilesByRepositoryId(@, 1)]
         [] requests[i].pc = "cleanUp" ->
              Finish([App EXCEPT !.ragCache = NoMap], i, "204"))

\* reindexRepository between its awaits: after getRepositoryById the check
\* and the spawn of find; on its close deleteFilesByRepositoryId; then one
\* db.storeFile({repoId, name, path, packageName}) per file found, whose
\* rejection is logged only; then updateRepository and the response
ReindexRequestStep(i) ==
  /\ requests[i].handler = "reindex"
  /\ requests[i].pc # "done"
  /\ \E ok \in BOOLEAN,
        found \in {<< >>, <<"A.java">>, <<"A.java", "B.java">>} :
       Apply(
         CASE requests[i].pc = "getRepositoryById" ->
                IF repository = NoMap THEN Finish(App, i, "404")
                ELSE IF ~ok THEN Finish(App, i, "400")
                ELSE [App EXCEPT !.requests[i].pc = "find"]
           [] requests[i].pc = "find" ->
                IF ~ok THEN Finish(App, i, "500")
                ELSE [App EXCEPT !.requests[i] =
                        [files |-> found, rest |-> found]
                          @@ [@ EXCEPT !.pc = "deleteFilesByRepositoryId"]]
           [] requests[i].pc = "deleteFilesByRepositoryId" ->
                [App EXCEPT !.db = deleteFilesByRepositoryId(@, 1),
                            !.requests[i].pc =
                               IF requests[i].rest = << >>
                               THEN "updateRepository" ELSE "storeFile"]
           [] requests[i].pc = "storeFile" ->
                LET f == Head(requests[i].rest)
                    d == storeFile(Connect(db, Pool(~ok, 0)),
                           [repoId |-> 1, name |-> f, path |-> f,
                            packageName |-> "."],
                           NULL, NULL, NULL)
                IN  [App EXCEPT !.db = Disconnect(d),
                                !.requests[i].rest = Tail(@),
                                !.requests[i].pc =
                                   IF Tail(requests[i].rest) = << >>
                                   THEN "updateRepository" ELSE "storeFile"]
           [] requests[i].pc = "updateRepository" ->
                Finish(
                  [App EXCEPT
                     !.repository =
                        IF @ = NoMap THEN @ ELSE [@ EXCEPT !.status = "partial"],
                     !.console =
                        Append(@, Line("Successfully reindexed",
                                       requests[i].files))],
                  i, "200"))

\* a processed repository, indexed before or not, and the requests that
\* arrive for it
InitApp ==
  /\ Quiet
  /\ db \in {EmptyDb,
              Insert(EmptyDb, "files",
                [repo_id |-> 1, name |-> "Old.java", path |-> "Old.java",
                 package_name |-> "."])}
  /\ repository = Repository("processed", RepoPath)
  /\ ragCache = NoMap
  /\ requests \in UNION {[1..n -> {Request(h, "getRepositoryById") :
                                      h \in {"chat", "delete", "reindex"}}] :
                           n \in 1..MaxRequests}

NextApp ==
  \/ \E i \in DOMAIN requests : ChatRequestStep(i)
  \/ \E i \in DOMAIN requests : DeleteRequestStep(i)
  \/ \E i \in DOMAIN requests : ReindexRequestStep(i)

SpecApp == InitApp /\ [][NextApp]_vars

(* ======================= properties =================================== *)
Done == pc \in {"output", "exit0", "stored", "viewed"}

IsError(e) == "error" \in DOMAIN e

\* the classifier ran on the entry's file and returned its three lists
Classified(e) ==
  "sparkMetadata" \in DOMAIN e /\ "sources" \in DOMAIN e.sparkMetadata

\* did invocation op of the i-th file of the batch parse the file
Ran(op, i, ok) ==
  \E k \in DOMAIN invoked :
    invoked[k].op = op /\ invoked[k].file = i /\ invoked[k].ok = ok

\* the calls of a file whose simple name is in vocabulary V, in visit order
VocabCalls(f, V) ==
  LET idx == SelectIdx(Len(f.calls), LAMBDA i : f.calls[i].name \in V)
  IN [k \in 1..Len(idx) |-> f.calls[idx[k]]]

\* C1: the result list has exactly one entry per file of the batch: while
\* the loop runs one entry per file already processed, and after the loop
\* as many entries as input files, the i-th entry naming the i-th file,
\* whichever files failed to parse
C1_OneEntryPerFile ==
  /\ Len(results) = pos - 1
  /\ \A i \in DOMAIN results : results[i].file = filesToParse[i].path
  /\ Done => Len(results) = Len(filesToParse)

C1_Witness ==
  /\ pc = "exit0"
  /\ Len(results) >= 2
  /\ \E i, j \in DOMAIN results : IsError(results[i]) /\ ~IsError(results[j])

\* an entry carries no pipeline stage
NoStages(e) ==
  "sparkMetadata" \in DOMAIN e =>
    \A key \in {"sources", "transformations", "sinks"} :
      StageList(e.sparkMetadata, key) = << >>

\* C2: a file whose parse fails yields one error entry carrying no classes
\* and no pipeline stages, the other files of the batch are still
\* reported, and storeFileData persists nothing for such an entry
C2_ErrorEntryIsBare ==
  /\ \A i \in DOMAIN results :
       Ran("parseFile", i, FALSE) =>
         /\ IsError(results[i])
         /\ "classes" \notin DOMAIN results[i]
         /\ NoStages(results[i])
  /\ Done => Len(results) = Len(filesToParse)
  /\ (pc \in {"stored", "viewed"} /\ Ran("parseFile", 1, FALSE)) => db = EmptyDb

StageTypes(list) == [k \in DOMAIN list |-> list[k].type]

CallNames(cs) == [k \in DOMAIN cs |-> cs[k].name]

\* C3: the classifier emits, for each vocabulary, one record per call
\* whose simple name is an exact member of it, in visit order, and none
\* for any other call; a call on a bare identifier whose name is in both
\* the source and the sink vocabulary yields one source and one sink record
C3_OneStagePerVocabularyHit ==
  \A i \in DOMAIN results :
    Classified(results[i]) =>
      LET f == filesToParse[i]
          sm == results[i].sparkMetadata
      IN /\ StageTypes(sm.sources) = CallNames(VocabCalls(f, SPARK_SOURCES))
         /\ StageTypes(sm.transformations) =
              CallNames(VocabCalls(f, SPARK_TRANSFORMS))
         /\ StageTypes(sm.sinks) = CallNames(VocabCalls(f, SPARK_SINKS))
         /\ (/\ Len(f.calls) = 1
             /\ f.calls[1].name \in {"csv", "json", "parquet", "orc", "jdbc"}
             /\ f.calls[1].scopeKind = "name")
            => /\ Len(sm.sources) = 1 /\ Len(sm.sinks) = 1
               /\ Len(sm.transformations) = 0
               /\ sm.sources[1].type = f.calls[1].name
               /\ sm.sinks[1].type = f.calls[1].name

\* one call site on a bare identifier tagged both source and sink
C3_Witness ==
  \E i \in DOMAIN results :
    /\ Classified(results[i])
    /\ Len(filesToParse[i].calls) = 1
    /\ filesToParse[i].calls[1].name = "jdbc"
    /\ filesToParse[i].calls[1].scopeKind = "name"
    /\ Len(results[i].sparkMetadata.sources) = 1
    /\ Len(results[i].sparkMetadata.sinks) = 1

\* the binding identifier a stage record carries under key, NULL if none
Binding(stage, key) == Get(stage, key)

\* the binding identifier the call's receiver gives: its simple name if it
\* is a bare identifier
ReceiverName(c) == IF c.scopeKind = "name" THEN c.scopeName ELSE NULL

BindingsMatch(list, key, cs) ==
  /\ Len(list) = Len(cs)
  /\ \A k \in DOMAIN list :
       /\ (key \in DOMAIN list[k]) <=> (cs[k].scopeKind = "name")
       /\ Binding(list[k], key) = ReceiverName(cs[k])

\* C4: every stage has the simple name of its call's receiver as binding
\* identifier if and only if that receiver is a bare identifier, and none
\* when the receiver is a chained call, another expression, or absent
C4_BindingIffBareIdentifier ==
  \A i \in DOMAIN results :
    Classified(results[i]) =>
      LET f == filesToParse[i]
          sm == results[i].sparkMetadata
      IN /\ BindingsMatch(sm.sources, "scope", VocabCalls(f, SPARK_SOURCES))
         /\ BindingsMatch(sm.transformations, "dataframe",
                          VocabCalls(f, SPARK_TRANSFORMS))
         /\ BindingsMatch(sm.sinks, "dataframe", VocabCalls(f, SPARK_SINKS))

C4_Witness ==
  \E i \in DOMAIN results :
    /\ Classified(results[i])
    /\ \E k \in DOMAIN results[i].sparkMetadata.sinks :
         Binding(results[i].sparkMetadata.sinks[k], "dataframe") = "df"
    /\ \E k \in DOMAIN results[i].sparkMetadata.sinks :
         /\ "dataframe" \notin DOMAIN results[i].sparkMetadata.sinks[k]
         /\ VocabCalls(filesToParse[i], SPARK_SINKS)[k].scopeKind = "call"

\* the stages of a data flow: every row with its tag and binding identifier
Stages(data) ==
  {[tag |-> "source", id |-> r.id, binding |-> r.variable_name] :
     r \in data.sources}
  \cup {[tag |-> "transformation", id |-> r.id, binding |-> r.dataframe_name] :
          r \in data.transformations}
  \cup {[tag |-> "sink", id |-> r.id, binding |-> r.dataframe_name] :
          r \in data.sinks}

StageNode(st) == <<st.tag, st.id>>

\* the pairs flow-edge resolution is specified to produce
SpecifiedEdges(data) ==
  {Edge(StageNode(p[1]), StageNode(p[2])) :
     p \in {q \in Stages(data) \X Stages(data) :
              /\ q[1] # q[2]
              /\ q[1].binding # NULL
              /\ q[1].binding = q[2].binding
              /\ q[1].tag \in {"source", "transformation"}
              /\ q[2].tag \in {"transformation", "sink"}}}

\* C5 as stated: flow-edge resolution produces exactly the pairs
\* (upstream, downstream) of different stages with the same non-null
\* binding identifier, upstream a source or transformation, downstream a
\* transformation or sink, source-to-sink pairs included
C5_EdgesAreTheSpecifiedPairs ==
  pc = "viewed" => diagram.edges = SpecifiedEdges(getDataFlow(db, 1))

\* C5 amended: flow-edge resolution produces exactly the specified pairs
\* in which at least one of the two stages is a transformation (source to
\* transformation, transformation to sink, transformation to another
\* transformation); a source and a sink are never paired directly
C5_EdgesAreThePairsThroughATransformation ==
  pc = "viewed" =>
    diagram.edges =
      {e \in SpecifiedEdges(getDataFlow(db, 1)) :
         e.source[1] = "transformation" \/ e.target[1] = "transformation"}

\* a source and a sink share a binding identifier, and edges were produced
C5_Witness ==
  /\ pc = "viewed"
  /\ \E s \in getDataFlow(db, 1).sources, k \in getDataFlow(db, 1).sinks :
       s.variable_name # NULL /\ s.variable_name = k.dataframe_name
  /\ \E e \in diagram.edges : e.source[1] = "source"
  /\ \E e \in diagram.edges : e.target[1] = "sink"
  /\ \E e \in diagram.edges :
       e.source[1] = "transformation" /\ e.target[1] = "transformation"

\* C6: for df = spark.read.csv(...); df.filter(...); df.write.parquet(...)
\* classification and flow-edge resolution yield two edges, source to
\* transformation and transformation to sink, all joined on "df"; with a
\* chained receiver of the write call no edge reaches a sink
C6_PipelineHasTwoEdges ==
  (pc = "viewed" /\ ~IsError(stdout[1]) /\ Classified(stdout[1])) =>
    LET data == getDataFlow(db, 1)
    IN /\ filesToParse[1] = PipelineJava =>
            \E s \in data.sources, t \in data.transformations, k \in data.sinks :
              /\ s.variable_name = "df"
              /\ t.dataframe_name = "df"
              /\ k.dataframe_name = "df"
              /\ diagram.edges =
                   {Edge(Node("source", s), Node("transformation", t)),
                    Edge(Node("transformation", t), Node("sink", k))}
       /\ filesToParse[1] = ChainedJava =>
            \A e \in diagram.edges : e.target[1] # "sink"

\* C7: every method declaration of a file is in the methods list of
\* exactly one type declaration of the file's result, the one of its
\* directly enclosing type
C7_MethodInExactlyOneType ==
  \A i \in DOMAIN results :
    "classes" \in DOMAIN results[i] =>
      LET f == filesToParse[i]
          cs == results[i].classes
          Lists(m) == {t \in DOMAIN cs :
                         \E k \in DOMAIN cs[t].methods :
                           cs[t].methods[k].name = f.methods[m].name}
      IN \A m \in DOMAIN f.methods : Lists(m) = {f.methods[m].owner}

\* the argument texts a stage record carries
RecordedArguments(stage) ==
  IF "arguments" \in DOMAIN stage THEN stage.arguments
  ELSE IF "argument" \in DOMAIN stage THEN <<stage.argument>>
  ELSE << >>

ArgumentsMatch(list, cs) ==
  /\ Len(list) = Len(cs)
  /\ \A k \in DOMAIN list : RecordedArguments(list[k]) = cs[k].args

\* C8: every stage of any tag records the text of every argument of its
\* call, one per argument and in call order
C8_AllArgumentsRecorded ==
  \A i \in DOMAIN results :
    Classified(results[i]) =>
      LET f == filesToParse[i]
          sm == results[i].sparkMetadata
      IN /\ ArgumentsMatch(sm.sources, VocabCalls(f, SPARK_SOURCES))
         /\ ArgumentsMatch(sm.transformations, VocabCalls(f, SPARK_TRANSFORMS))
         /\ ArgumentsMatch(sm.sinks, VocabCalls(f, SPARK_SINKS))

\* C9: after parseFile failed to parse a file, neither isSparkFile nor
\* parseSparkFile is invoked for that file
C9_NoClassifierAfterParseFailure ==
  \A k \in DOMAIN invoked :
    invoked[k].op \in {"isSparkFile", "parseSparkFile"} =>
      ~Ran("parseFile", invoked[k].file, FALSE)

\* the classifier failed on the i-th file after parseFile had parsed it
ClassifierFailedAfterParse(i) ==
  /\ Ran("parseFile", i, TRUE)
  /\ Ran("isSparkFile", i, FALSE) \/ Ran("parseSparkFile", i, FALSE)

\* C10 as stated: a file that parseFile parsed and on which the classifier
\* then failed is reported by an error entry, not a success entry
C10_ClassifierFailureIsErrorEntry ==
  \A i \in DOMAIN results :
    ClassifierFailedAfterParse(i) =>
      IsError(results[i]) /\ "classes" \notin DOMAIN results[i]

\* C10 amended: such a file keeps its success entry (classes, no error
\* key); a failure of parseSparkFile is recorded as sparkMetadata holding
\* only the error reason, a failure of isSparkFile leaves the entry
\* without sparkMetadata; the failure stays inside the per-file step: the
\* entry is added and the loop goes on to the end of the batch
C10_ClassifierFailureKeepsSuccessEntry ==
  /\ \A i \in DOMAIN results :
       ClassifierFailedAfterParse(i) =>
         /\ ~IsError(results[i])
         /\ "classes" \in DOMAIN results[i]
         /\ Ran("parseSparkFile", i, FALSE) =>
              /\ "sparkMetadata" \in DOMAIN results[i]
              /\ DOMAIN results[i].sparkMetadata = {"error"}
         /\ Ran("isSparkFile", i, FALSE) =>
              "sparkMetadata" \notin DOMAIN results[i]
  /\ \A i \in 1..Len(filesToParse) :
       (ClassifierFailedAfterParse(i) /\ Done) => i \in DOMAIN results

C10_Witness ==
  /\ Done
  /\ \E i \in DOMAIN results :
       /\ Ran("parseFile", i, TRUE)
       /\ Ran("parseSparkFile", i, FALSE)
       /\ "classes" \in DOMAIN results[i]
       /\ IsError(results[i].sparkMetadata)
       /\ i < Len(results)

\* the file neither imports nor references the framework: no framework
\* import, no local of a framework type, no session-building call
NoFrameworkUse(f) ==
  /\ \A i \in DOMAIN f.imports : ~IsSparkImport(f.imports[i])
  /\ \A i \in DOMAIN f.locals : ~IsSparkType(f.locals[i].type)
  /\ \A i \in DOMAIN f.calls :
       f.calls[i].name \notin {"builder", "getOrCreate", "sparkContext"}

HasVocabCall(f) ==
  \E i \in DOMAIN f.calls :
    f.calls[i].name \in SPARK_SOURCES \cup SPARK_TRANSFORMS \cup SPARK_SINKS

\* every parse of the i-th file of the batch succeeded: parseFile's and
\* each of the classifier's own
ParsedThroughout(i) ==
  /\ Ran("parseFile", i, TRUE)
  /\ ~Ran("isSparkFile", i, FALSE)
  /\ ~Ran("parseSparkFile", i, FALSE)

\* C11: classification is not gated by imports or framework use: the
\* result of every successfully parsed file with at least one call whose
\* simple name is in one of the three vocabularies carries the stage
\* records of all such calls, whether or not the file imports or
\* references the framework
C11_ClassifiedWithoutFrameworkUse ==
  \A i \in DOMAIN results :
    (ParsedThroughout(i) /\ HasVocabCall(filesToParse[i])) =>
      /\ Classified(results[i])
      /\ LET f == filesToParse[i]
             sm == results[i].sparkMetadata
         IN /\ StageTypes(sm.sources) = CallNames(VocabCalls(f, SPARK_SOURCES))
            /\ StageTypes(sm.transformations) =
                 CallNames(VocabCalls(f, SPARK_TRANSFORMS))
            /\ StageTypes(sm.sinks) = CallNames(VocabCalls(f, SPARK_SINKS))

\* a file without any framework import or reference got its stage records
C11_Witness ==
  \E i \in DOMAIN results :
    /\ ParsedThroughout(i)
    /\ NoFrameworkUse(filesToParse[i])
    /\ filesToParse[i].imports = << >>
    /\ Classified(results[i])
    /\ Len(results[i].sparkMetadata.sources) = 1
    /\ Len(results[i].sparkMetadata.transformations) = 1
    /\ Len(results[i].sparkMetadata.sinks) = 1

\* the number of names the field statements before statement s declare
RECURSIVE NamesBefore(_, _)
NamesBefore(decls, s) ==
  IF s <= 1 THEN 0
  ELSE NamesBefore(decls, s - 1) + Len(decls[s - 1].variables)

\* the entries of statement s of a type are one per declared name, with
\* pairwise distinct names and the statement's visibility and static flag
OneEntryPerName(decls, fields, s) ==
  LET n == Len(decls[s].variables)
      off == NamesBefore(decls, s)
  IN /\ \A k \in 1..n :
          /\ fields[off + k].name = decls[s].variables[k].name
          /\ fields[off + k].isPublic = decls[s].isPublic
          /\ fields[off + k].isStatic = decls[s].isStatic
     /\ \A k, l \in 1..n :
          k # l => fields[off + k].name # fields[off + l].name

\* C12 as stated: a field statement declaring n names yields exactly n
\* field entries in its type, one per declared name, with pairwise distinct
\* names and identical type, visibility and static flag
C12_OneFieldPerDeclaredName ==
  \A i \in DOMAIN results :
    "classes" \in DOMAIN results[i] =>
      \A t \in DOMAIN results[i].classes :
        LET decls == filesToParse[i].types[t].fields
            fields == results[i].classes[t].fields
        IN /\ Len(fields) = NamesBefore(decls, Len(decls) + 1)
           /\ \A s \in DOMAIN decls :
                /\ OneEntryPerName(decls, fields, s)
                /\ \A k, l \in 1..Len(decls[s].variables) :
                     fields[NamesBefore(decls, s) + k].type =
                       fields[NamesBefore(decls, s) + l].type

\* C12 amended: such a statement yields exactly n field entries, one per
\* declared name, with pairwise distinct names and identical visibility
\* and static flag; the type of each entry is the statement's type
\* followed by the bracket pairs written after that name, so the entries
\* of "int a, b[];" have the types int and int[]
C12_OneFieldPerNameWithItsOwnType ==
  \A i \in DOMAIN results :
    "classes" \in DOMAIN results[i] =>
      \A t \in DOMAIN results[i].classes :
        LET decls == filesToParse[i].types[t].fields
            fields == results[i].classes[t].fields
        IN /\ Len(fields) = NamesBefore(decls, Len(decls) + 1)
           /\ \A s \in DOMAIN decls :
                /\ OneEntryPerName(decls, fields, s)
                /\ \A k \in 1..Len(decls[s].variables) :
                     fields[NamesBefore(decls, s) + k].type =
                       decls[s].type
                         \o [b \in 1..decls[s].variables[k].dims |-> "[]"]

\* a statement of two or more names, one of them with brackets of its
\* own, was extracted next to another statement
C12_Witness ==
  \E i \in DOMAIN results :
    /\ "classes" \in DOMAIN results[i]
    /\ \E t \in DOMAIN results[i].classes :
         /\ Len(filesToParse[i].types[t].fields) = 2
         /\ Len(filesToParse[i].types[t].fields[1].variables) >= 2
         /\ \E k \in DOMAIN filesToParse[i].types[t].fields[1].variables :
              filesToParse[i].types[t].fields[1].variables[k].dims = 1
         /\ filesToParse[i].types[t].fields[1].isPublic
         /\ Len(results[i].classes[t].fields) >= 3

\* the declaration a listed method was extracted from (method names are
\* unique within the files of the model)
DeclNamed(f, name) ==
  f.methods[CHOOSE m \in DOMAIN f.methods : f.methods[m].name = name]

\* every type of the entry has its methods list and its fields list
HasMemberLists(e) ==
  \A t \in DOMAIN e.classes :
    {"methods", "fields"} \subseteq DOMAIN e.classes[t]

\* the record has a list under key and the list is empty
HasEmptyList(mi, key) == key \in DOMAIN mi /\ Len(mi[key]) = 0

\* C13 as stated: every extracted type has a methods list and a fields
\* list, possibly empty and never missing, and every method without a body
\* has no body text and has empty methodCalls and variables lists
C13_BodylessMethodHasEmptyLists ==
  \A i \in DOMAIN results :
    "classes" \in DOMAIN results[i] =>
      /\ HasMemberLists(results[i])
      /\ \A t \in DOMAIN results[i].classes :
           \A k \in DOMAIN results[i].classes[t].methods :
             LET mi == results[i].classes[t].methods[k]
             IN ~DeclNamed(filesToParse[i], mi.name).hasBody =>
                  /\ "body" \notin DOMAIN mi
                  /\ HasEmptyList(mi, "methodCalls")
                  /\ HasEmptyList(mi, "variables")

\* C13 amended: every extracted type has a methods list and a fields list,
\* possibly empty and never missing; a method without a body has none of
\* body, methodCalls and variables (the keys are missing, not empty
\* lists), a method with a body has all three, and no call or variable
\* row is stored for a method stored without a body
C13_BodylessMethodHasNoLists ==
  /\ \A i \in DOMAIN results :
       "classes" \in DOMAIN results[i] =>
         /\ HasMemberLists(results[i])
         /\ \A t \in DOMAIN results[i].classes :
              \A k \in DOMAIN results[i].classes[t].methods :
                LET mi == results[i].classes[t].methods[k]
                IN IF DeclNamed(filesToParse[i], mi.name).hasBody
                   THEN {"body", "methodCalls", "variables"} \subseteq DOMAIN mi
                   ELSE {"body", "methodCalls", "variables"} \cap DOMAIN mi = {}
  /\ \A r \in Range(db.methods) :
       r.body = NULL =>
         /\ \A c \in Range(db.method_calls) : c.method_id # r.id
         /\ \A v \in Range(db.variables) : v.method_id # r.id

\* a method without a body and a type without fields were extracted and
\* stored, next to a method whose calls were stored
C13_Witness ==
  /\ pc = "stored"
  /\ "classes" \in DOMAIN stdout[1]
  /\ \E t \in DOMAIN stdout[1].classes :
       /\ stdout[1].classes[t].fields = << >>
       /\ \E k \in DOMAIN stdout[1].classes[t].methods :
            "body" \notin DOMAIN stdout[1].classes[t].methods[k]
  /\ \E r \in Range(db.methods) : r.body = NULL
  /\ db.method_calls # << >>

\* how many entries of a list of names are the given name
Occurrences(list, name) == Cardinality({k \in DOMAIN list : list[k] = name})

\* how many call expressions in the body of method m of the file have the
\* given simple name
CallsNamed(f, m, name) ==
  Cardinality({j \in DOMAIN f.calls :
                 f.calls[j].method = m /\ f.calls[j].name = name})

\* the index of the method declaration a listed method was extracted from
DeclIndex(f, name) == CHOOSE m \in DOMAIN f.methods : f.methods[m].name = name

\* C14: for every method with a body, methodCalls holds the simple callee
\* name of every call expression anywhere in the body, nested and chained
\* calls included, one entry per call expression; the filter call of
\* df.filter(col("age").gt(20)) in run is listed under run whether or not
\* the file's result also carries a stage record for it
C14_MethodCallsListEveryCall ==
  \A i \in DOMAIN results :
    "classes" \in DOMAIN results[i] =>
      /\ \A t \in DOMAIN results[i].classes :
           \A k \in DOMAIN results[i].classes[t].methods :
             LET mi == results[i].classes[t].methods[k]
                 f == filesToParse[i]
                 m == DeclIndex(f, mi.name)
             IN f.methods[m].hasBody =>
                  /\ Len(mi.methodCalls) =
                       Cardinality({j \in DOMAIN f.calls : f.calls[j].method = m})
                  /\ \A j \in DOMAIN f.calls :
                       f.calls[j].method = m =>
                         Occurrences(mi.methodCalls, f.calls[j].name) =
                           CallsNamed(f, m, f.calls[j].name)
      /\ filesToParse[i] = PipelineJava =>
           /\ Occurrences(results[i].classes[1].methods[1].methodCalls,
                          "filter") = 1
           /\ Occurrences(results[i].classes[1].methods[1].methodCalls,
                          "gt") = 1
           /\ Occurrences(results[i].classes[1].methods[1].methodCalls,
                          "col") = 1

\* the filter call is listed under run both in a result that carries its
\* stage record and in one that carries no stage record
C14_Witness ==
  \E i, j \in DOMAIN results :
    /\ filesToParse[i] = PipelineJava /\ filesToParse[j] = PipelineJava
    /\ "classes" \in DOMAIN results[i] /\ "classes" \in DOMAIN results[j]
    /\ Classified(results[i])
    /\ \E k \in DOMAIN results[i].sparkMetadata.transformations :
         results[i].sparkMetadata.transformations[k].type = "filter"
    /\ ~Classified(results[j])
    /\ Len(results[j].classes[1].methods[1].methodCalls) = 7

\* the table the rows of a tag live in
StageTable(tag) ==
  IF tag = "source" THEN "spark_sources"
  ELSE IF tag = "transformation" THEN "spark_transformations"
  ELSE "spark_sinks"

\* the file a node's stage belongs to
StageFile(node) ==
  (CHOOSE r \in Range(db[StageTable(node[1])]) : r.id = node[2]).file_id

\* C15: binding identifiers are resolved within one source file only: no
\* edge of flow-edge resolution has its upstream and its downstream stage
\* in different files, even when stages of different files of the same
\* repository share a binding identifier
C15_EdgesStayWithinOneFile ==
  pc = "viewed" =>
    \A e \in diagram.edges : StageFile(e.source) = StageFile(e.target)

\* the id of the file a row of a table belongs to, following the row's
\* parent keys through the tables of d
OwnerFile(d, table, r) ==
  LET ClassFile(cid) ==
        (CHOOSE c \in Range(d.classes) : c.id = cid).file_id
      MethodFile(mid) ==
        ClassFile((CHOOSE m \in Range(d.methods) : m.id = mid).class_id)
  IN CASE table = "files" -> r.id
       [] table \in {"classes", "spark_sources", "spark_transformations",
                     "spark_sinks"} -> r.file_id
       [] table \in {"methods", "fields"} -> ClassFile(r.class_id)
       [] table \in {"method_calls", "variables"} -> MethodFile(r.method_id)

\* the rows of a table that belong to a file other than the given ones
RowsOfOtherFiles(d, table, gone) ==
  LET Other(r) == OwnerFile(d, table, r) \notin gone
  IN SelectSeq(d[table], Other)

\* C16: in a step that deletes a file's record, every class, method,
\* field, method call, variable, source, transformation and sink record
\* of that file goes with it, and the records of every other file stay
\* as they were
C16_DeleteCascadesToTheFileOnly ==
  [][Len(db'.files) < Len(db.files) =>
       LET gone == {f.id : f \in Range(db.files)} \
                     {f.id : f \in Range(db'.files)}
       IN \A table \in Tables :
            /\ \A r \in Range(db'[table]) : OwnerFile(db, table, r) \notin gone
            /\ db'[table] = RowsOfOtherFiles(db, table, gone)]_vars

\* one of two stored files was deleted: its rows at every level are gone
\* and rows of the other file at every level are there
C16_Witness ==
  /\ db.serial["files"] = 2 /\ Len(db.files) = 1
  /\ \A table \in {"classes", "methods", "method_calls", "variables",
                   "spark_sources", "spark_transformations", "spark_sinks"} :
       /\ db.serial[table] > Len(db[table])
       /\ Len(db[table]) > 0

\* a chat request was answered for a repository whose status is not
\* processed
ChatOnUnprocessed ==
  /\ response # NoMap
  /\ response.request = "chat"
  /\ repository # NoMap
  /\ repository.status # "processed"

\* C17: a chat request for a repository whose status is anything other
\* than processed is rejected with HTTP 400 and the error "Repository
\* analysis is not complete yet", and no RAG system is initialized, cached
\* or queried for that request
C17_ChatNeedsProcessedRepository ==
  (ChatOnUnprocessed /\ ~QueryTooShort(response.query)) =>
    /\ response.status = 400
    /\ response.error = "Repository analysis is not complete yet"
    /\ ragLog = << >>

\* the query is null, the empty string or whitespace only
IsBlankQuery(query) == query = NoQuery \/ Len(trim(query)) = 0

\* C18: for every query that is null, the empty string or whitespace
\* only, queryCodebase returns "Please provide a valid query about the
\* codebase." and invokes neither the model nor any tool
C18_BlankQueryIsRejected ==
  (/\ response # NoMap
   /\ response.request = "queryCodebase"
   /\ IsBlankQuery(response.query)) =>
    /\ response.text = <<"Please provide a valid query about the codebase.">>
    /\ ragLog = <<"queryCodebase">>

\* the full path lies under the repository root: it is the root followed
\* by segments none of which leads upwards
Under(repoPath, full) ==
  /\ full.absolute
  /\ Len(full.segs) >= Len(repoPath)
  /\ SubSeq(full.segs, 1, Len(repoPath)) = repoPath
  /\ \A i \in DOMAIN full.segs : full.segs[i] # ".."

HasDotDot(p) == \E i \in DOMAIN p.segs : p.segs[i] = ".."

\* C19: read_file_content never reads outside the repository root: for
\* every requested path with ".." among its segments, either the answer
\* is the error "Invalid file path: Path traversal not allowed" or the
\* path the file system is asked about lies under repoPath
C19_ReadStaysUnderRepoPath ==
  (/\ response # NoMap
   /\ response.request = "read_file_content"
   /\ HasDotDot(response.filePath)) =>
    \/ /\ "error" \in DOMAIN response.result
       /\ response.result.error = "Invalid file path: Path traversal not allowed"
       /\ "fullPath" \notin DOMAIN response
    \/ /\ "fullPath" \in DOMAIN response
       /\ Under(ragCache.repoPath, response.fullPath)

\* a path with ".." inside that stays in the repository was read
C19_Witness ==
  /\ response # NoMap
  /\ response.request = "read_file_content"
  /\ response.filePath = Path(FALSE, <<"a", "..", "a">>)
  /\ "content" \in DOMAIN response.result
  /\ response.fullPath = Path(TRUE, <<"repos", "1", "a">>)

\* how many entries of a result list equal the given entry
Copies(list, e) == Cardinality({k \in DOMAIN list : list[k] = e})

\* a second run on the same files has written its output
SecondRunDone == firstRun # NoMap /\ pc = "exit0"

Exited == pc \in {"exit0", "exit1"}

\* the conditions under which a run may fail: a command line that does not
\* parse, a missing file or directory, a directory that cannot be read, no
\* file to parse, an output file that cannot be written
Catastrophic(c) ==
  \/ ~c.valid
  \/ c.file.given /\ ~c.file.exists
  \/ c.directory.given /\ (~c.directory.exists \/ ~c.directory.readable)
  \/ ~c.file.given
       /\ (c.directory.given => \A e \in c.directory.entries : ~endsWithJava(e.path))
  \/ c.output.given /\ ~c.output.writable

\* the list the run wrote, to the -o file or to standard output
Written == IF cmd.output.given THEN outputFile ELSE stdout

\* C21: the run ends with a failure status only for a condition that
\* precedes processing or concerns the output; whatever happens to single
\* files, a run without such a condition ends with status 0 and has written
\* the list, one entry per file
C21_RunFailsOnlyForCatastrophicConditions ==
  /\ pc = "exit1" => Catastrophic(cmd)
  /\ Exited /\ ~Catastrophic(cmd) /\ ~cmd.help =>
       /\ pc = "exit0"
       /\ Written = results
       /\ Len(results) = Len(filesToParse)

\* a run over a file and a directory, one file failed in parseFile and a
\* framework file failed in parseSparkFile, and the list is in the -o file
C21_Witness ==
  /\ pc = "exit0"
  /\ cmd.file.given /\ cmd.directory.given /\ cmd.output.given
  /\ Len(outputFile) >= 2
  /\ \E k \in DOMAIN outputFile : IsError(outputFile[k])
  /\ \E k \in DOMAIN outputFile :
       /\ "sparkMetadata" \in DOMAIN outputFile[k]
       /\ "error" \in DOMAIN outputFile[k].sparkMetadata

\* C30: no file path appears twice in the list a run wrote, also when one
\* file is named by -f and found below the directory of -d
C30_NoPathTwiceInTheList ==
  pc = "exit0" /\ ~cmd.help =>
    \A i, j \in DOMAIN Written : i # j => Written[i].file # Written[j].file

\* the parser process of the current file has not ended yet
Parsing == pc \in {"parseFile", "isSparkFile", "parseSparkFile", "add", "output"}

\* every row of every table of d is a row of e, in the same place
KeepsRows(d, e) ==
  \A t \in Tables :
    Len(d[t]) <= Len(e[t]) /\ SubSeq(e[t], 1, Len(d[t])) = d[t]

\* the console says that the store of the file succeeded
LoggedStored(lines, file) ==
  \E k \in DOMAIN lines :
    lines[k] = Line("Successfully stored data for file", file)

\* C22: in processRepository the results are persisted file by file: while
\* a file is parsed the tables do not change, the next file is taken up only
\* after the store of the one before has returned or thrown, a store that
\* succeeded has put the file's record into the tables, and a store,
\* failed or not, leaves every row stored before in place
C22_ResultsArePersistedFileByFile ==
  [][/\ Parsing => db' = db
     /\ javaFiles' # javaFiles => pc = "stored" /\ db' = db
     /\ pc = "exit0" /\ pc' = "stored" =>
          /\ KeepsRows(db, db')
          /\ LoggedStored(console', stdout[1].file) =>
               \E r \in Range(db'.files) :
                 r.path = stdout[1].file /\ r.id = db'.serial["files"]]_vars

\* the first file of a repository was stored, the store of the second
\* threw after its file record, and the rows of the first are still there
C22_Witness ==
  /\ pc = "stored"
  /\ javaFiles = << >>
  /\ \E i, j \in DOMAIN console :
       /\ i < j
       /\ console[i].msg = "Successfully stored data for file"
       /\ console[j].msg = "Error processing file"
       /\ console[i].file # console[j].file
       /\ \E r \in Range(db.files) : r.path = console[i].file
       /\ \E r \in Range(db.files) : r.path = console[j].file
       /\ \E r \in Range(db.classes) : r.file_id = 1

\* the lines of the console with the given message
LinesOf(msg) == {k \in DOMAIN console : console[k].msg = msg}

\* C23: within one run no file is retried: processRepository takes up each
\* file once, a file has at most one outcome of its store and at most one
\* file record, each position of a parser process's list is handed to
\* parseFile once, and after a failure the run is at the next file
C23_NoFileIsRetried ==
  /\ \A i, j \in LinesOf("Parsing file") :
       console[i].file = console[j].file => i = j
  /\ \A i, j \in LinesOf("Error processing file")
                   \cup LinesOf("Error parsing file")
                   \cup LinesOf("Successfully stored data for file") :
       console[i].file = console[j].file => i = j
  /\ \A i, j \in DOMAIN db.files : db.files[i].path = db.files[j].path => i = j
  /\ \A i, j \in DOMAIN invoked :
       /\ invoked[i].op = "parseFile"
       /\ invoked[j].op = "parseFile"
       /\ invoked[i].file = invoked[j].file
       => i = j
  /\ \A k \in DOMAIN console :
       console[k].msg \in {"Error processing file", "Error parsing file"}
         /\ k < Len(console)
       => /\ console[k + 1].msg = "Parsing file"
          /\ console[k + 1].file # console[k].file

\* the first file of a repository failed to parse, the store of the
\* second threw, and the run is at the third or at its end
C23_Witness ==
  /\ pc = "stored"
  /\ \E i, j \in DOMAIN console :
       /\ i < j
       /\ console[i].msg = "Error parsing file"
       /\ console[j].msg = "Error processing file"
       /\ j = Len(console)

\* what a store that completes every query makes of the tables
StoredWhole(d, fileData) ==
  Disconnect(storeFileData(Connect(d, Pool(FALSE, 0)), fileData, 1))

\* C24: persistence of one file is all-or-nothing: when storeFileData has
\* returned or thrown, either the file record and all of its children are
\* in the tables or nothing of the file is
C24_StoreIsAllOrNothing ==
  [][pc = "exit0" /\ pc' = "stored" =>
       db' = db \/ db' = StoredWhole(db, stdout[1])]_vars

\* the edge joins two different stages of the data with the same binding
\* identifier, not null, the first no sink and the second no source
SoundEdge(e, data) ==
  \E u, v \in Stages(data) :
    /\ StageNode(u) = e.source
    /\ StageNode(v) = e.target
    /\ u # v
    /\ u.binding # NULL
    /\ u.binding = v.binding
    /\ u.tag # "sink"
    /\ v.tag # "source"

\* C25: every edge that flow-edge resolution produces is sound, and a
\* stage without binding identifier has no incident edge
C25_EveryEdgeIsSound ==
  pc = "viewed" =>
    LET data == getDataFlow(db, 1)
    IN  /\ \A e \in diagram.edges : SoundEdge(e, data)
        /\ \A st \in Stages(data) :
             st.binding = NULL =>
               \A e \in diagram.edges :
                 e.source # StageNode(st) /\ e.target # StageNode(st)

\* a diagram with an edge, over data in which a source has no binding
\* identifier
C25_Witness ==
  /\ pc = "viewed"
  /\ diagram.edges # {}
  /\ \E u \in Stages(getDataFlow(db, 1)) : u.tag = "source" /\ u.binding = NULL

\* the handler did x
Did(x) == \E k \in DOMAIN requests[1].log : requests[1].log[k] = x

Answered(i, status) ==
  /\ requests[i].pc = "done"
  /\ requests[i].log[Len(requests[i].log)] = status

\* C27: under every interleaving of chat and delete requests for one
\* repository at most one RoamingRagSystem is initialized for it, and once
\* a deleteRepository has completed and every request is over no RAG
\* system of the repository is left in the application
C27_OneRagSystemAndNoneAfterDelete ==
  /\ Cardinality({k \in DOMAIN ragLog : ragLog[k] = "initialize"}) <= 1
  /\ (/\ \A i \in DOMAIN requests : requests[i].pc = "done"
      /\ \E i \in DOMAIN requests :
           requests[i].handler = "delete" /\ Answered(i, "204"))
     => ragCache = NoMap

\* C29: when the reindex requests for a repository are over, overlapping or
\* not, the repository has exactly one file record for each Java file the
\* reindex that completed last has found, and no other file record
C29_ReindexLeavesOneRecordPerFile ==
  (/\ \A i \in DOMAIN requests :
        requests[i].handler = "reindex" /\ requests[i].pc = "done"
   /\ console # << >>)
  => LET files == console[Len(console)].file
     IN  /\ \A k \in DOMAIN files :
              Cardinality({r \in DOMAIN db.files : db.files[r].path = files[k]}) = 1
         /\ \A r \in DOMAIN db.files : \E k \in DOMAIN files : db.files[r].path = files[k]

(* ------------- rag: one invocation of the function-call agent --------- *)

\* const maxToolCalls = 5
maxToolCalls == 5

\* content.match(toolCallRegex): a match, no match, or a TypeError on what
\* is no string
toolCallMatch(content) ==
  IF content.type # "string" THEN "TypeError"
  ELSE IF content.text = "answer" THEN "null" ELSE "match"

\* faulty variant: the loop goes on as long as the model asks for a tool
InLoopUnlimited(match, toolCallCount) == match = "match"

\* while (toolCallMatch && toolCallCount < maxToolCalls)
InLoop(match, toolCallCount) == match = "match" /\ toolCallCount < maxToolCalls

\* return ...: the invocation resolves with the value
Return(value) ==
  /\ response' = [request |-> "functionCallAgent.invoke", returned |-> value]
  /\ requests' = [requests EXCEPT ![1].pc = "done"]

\* catch (error): the message string of the outer handler
ErrorMessage ==
  [type |-> "string", text |-> "I encountered an error while analyzing the code"]

\* await this.model.invoke(conversation) settles: the handler runs up to
\* its next await or to its return
ModelInvoke ==
  /\ requests[1].pc = "model.invoke"
  /\ \/ /\ Return(ErrorMessage)
        /\ ragLog' = Append(ragLog, "model threw")
     \/ \E content \in
            \* response.content: text without a tool call, text asking for
            \* a tool this.tools has or has not, or no string at all
            {[type |-> "string", text |-> t] :
                t \in {"answer", "TOOL: list_files", "TOOL: no_such_tool"}}
              \cup {[type |-> "undefined", text |-> NULL],
                    [type |-> "array", text |-> NULL]} :
          LET match == toolCallMatch(content)
              \* this.tools.find(t => t.name === toolName)
              tool  == content.text = "TOOL: list_files"
              req   == requests[1]
              asked == Append(req.conversation, [role |-> "assistant", content |-> content.text])
          IN IF match = "TypeError"
             THEN /\ Return(ErrorMessage)
                  /\ ragLog' = Append(ragLog, "content.match threw")
             ELSE IF ~InLoop(match, req.toolCallCount)
             THEN /\ Return(content)
                  /\ UNCHANGED ragLog
             ELSE IF ~tool
             THEN /\ requests' = [requests EXCEPT ![1] =
                       [req EXCEPT !.toolCallCount = @ + 1,
                                   !.conversation =
                                      Append(asked, [role |-> "user", content |-> "Error: Tool not found"]),
                                   !.invocations = @ + 1]]
                  /\ UNCHANGED <<ragLog, response>>
             ELSE /\ requests' = [requests EXCEPT ![1] =
                       [req EXCEPT !.toolCallCount = @ + 1,
                                   !.conversation = asked,
                                   !.pc = "tool.invoke"]]
                  /\ UNCHANGED <<ragLog, response>>
  /\ UNCHANGED <<repository, ragCache, db, console>>
  /\ UNCHANGED <<filesToParse, pos, pc, fileMetadata, results, invoked, stdout,
                 javaFiles, diagram, firstRun, cmd, outputFile>>

\* await tool.invoke(toolArgs) settles: the result, or the message of what
\* it threw, goes back to the model
ToolInvoke ==
  /\ requests[1].pc = "tool.invoke"
  /\ \E toolResult \in {"TOOL RESULT: ok", "TOOL RESULT: Error executing tool"} :
       requests' = [requests EXCEPT ![1] =
         [@ EXCEPT !.conversation =
                      Append(@, [role |-> "user", content |-> toolResult]),
                   !.invocations = @ + 1,
                   !.pc = "model.invoke"]]
  /\ UNCHANGED <<repository, ragCache, ragLog, response, db, console>>
  /\ UNCHANGED <<filesToParse, pos, pc, fileMetadata, results, invoked, stdout,
                 javaFiles, diagram, firstRun, cmd, outputFile>>

\* functionCallAgent.invoke({input}) up to its first await
InitAgent ==
  /\ Quiet
  /\ db = EmptyDb
  /\ repository = Repository("processed", RepoPath)
  /\ ragCache = NoMap
  /\ requests = <<[conversation |-> <<[role |-> "system", content |-> "systemMessage"],
                                       [role |-> "user", content |-> "input"]>>,
                   toolCallCount |-> 0,
                   invocations |-> 1]
                  @@ Request("functionCallAgent.invoke", "model.invoke")>>

NextAgent ==
  \/ ModelInvoke
  \/ ToolInvoke

\* every awaited promise settles
SpecAgent == InitAgent /\ [][NextAgent]_vars /\ WF_vars(NextAgent)

\* the messages that report a tool round back to the model
Reports == {"Error: Tool not found", "TOOL RESULT: ok",
            "TOOL RESULT: Error executing tool"}

ReportsIn(conversation) ==
  Cardinality({k \in DOMAIN conversation : conversation[k].content \in Reports})

\* every tool call of the conversation is followed by its report, or its
\* tool is running
ReportedBack(req) ==
  \A k \in DOMAIN req.conversation :
    LET m == req.conversation[k]
    IN (m.role = "assistant") =>
         IF k = Len(req.conversation)
         THEN req.pc = "tool.invoke" /\ m.content = "TOOL: list_files"
         ELSE req.conversation[k + 1].content \in
                (IF m.content = "TOOL: no_such_tool"
                 THEN {"Error: Tool not found"}
                 ELSE {"TOOL RESULT: ok", "TOOL RESULT: Error executing tool"})

\* C28: one invocation of the function-call agent ends and returns a
\* string; it runs at most 5 tool rounds and calls the model at most 6
\* times whatever the model answers; an unknown or failing tool is reported
\* back to the model, which is called again; what the model throws becomes
\* the error message string
C28_AgentInvocationEndsWithAString ==
  /\ <>(requests[1].pc = "done")
  /\ [](requests[1].pc = "done" =>
          /\ response # NoMap
          /\ response.returned.type = "string")
  /\ [](/\ requests[1].toolCallCount <= maxToolCalls
        /\ requests[1].invocations <= maxToolCalls + 1
        /\ requests[1].invocations = 1 + ReportsIn(requests[1].conversation)
        /\ ReportedBack(requests[1]))
  /\ [](ragLog # << >> =>
          /\ requests[1].pc = "done"
          /\ response.returned = ErrorMessage)

\* five tool rounds, one with an unknown tool and one with a failing tool,
\* and the sixth answer of the model, again a tool call, is what is returned
C28_Witness ==
  /\ requests # << >>
  /\ requests[1].handler = "functionCallAgent.invoke"
  /\ requests[1].pc = "done"
  /\ requests[1].toolCallCount = maxToolCalls
  /\ requests[1].invocations = maxToolCalls + 1
  /\ \E k \in DOMAIN requests[1].conversation :
       requests[1].conversation[k].content = "Error: Tool not found"
  /\ \E k \in DOMAIN requests[1].conversation :
       requests[1].conversation[k].content = "TOOL RESULT: Error executing tool"
  /\ response.returned.text = "TOOL: list_files"

====
